---- MODULE Spec2Model ----
(***************************************************************************)
(* A model of the ticketwatcher patch pipeline:                            *)
(*   src/src/ticketwatcher/handlers.py   path sandbox, context fetcher,    *)
(*                                       diff engine, issue handlers       *)
(*   src/src/ticketwatcher/agent_llm.py  the two-round agent contract      *)
(* Texts, paths and diff lines are strings, handled character by           *)
(* character as the Python code handles them.                              *)
(***************************************************************************)
EXTENDS Integers, Sequences, FiniteSets, TLC

VARIABLES
    \* --- path sandbox harness (SpecPath)
    ppc,        \* "in" | "rel1" | "rel2" : how far the harness has applied the functions
    pPath,      \* the raw path string under test
    pAllow,     \* the allow-list under test (a sequence of prefixes)
    pRoot,      \* REPO_ROOT of this run
    pRel1,      \* _to_repo_relative(pPath)
    pRel2,      \* _to_repo_relative(pRel1)
    pAllowed,   \* _path_allowed_with(pPath, pAllow)
    \* --- diff engine harness (SpecDiff)
    dpc,        \* "in" | "parsed" | "applied" | "counted"
    dOrig,      \* the original text A
    dNew,       \* the text B the diff was made for
    dDiff,      \* the unified diff text from A to B
    dParsed,    \* _parse_unified_diff(dDiff)
    dOut,       \* _apply_hunks_to_text(dOrig, dParsed[path]): [ok, text]
    dStats,     \* _diff_stats(dDiff)
    \* --- one run of handle_issue_event (Spec)
    pc,             \* the step the handler is at; "done" once it has returned or raised
    outcome,        \* how the run ended ("" while it runs)
    ALLOWED_PATHS,  \* the configured allow-list of this run
    event,          \* the event: [action, labels, label, comment], comment the lines
                    \* of the comment of a comment event
    body,           \* the issue body, a sequence of lines [kind, arg]
    requested_files,
    in_scope_files,
    seed_snips,     \* the seed snippets [path, start_line, end_line, code]
    all_snips,      \* the snippets of the latest model round
    reply,          \* what the latest model reply decoded to
    result,         \* the latest result of _call_llm: [action, needs, diff, reason]
    needs,          \* the sanitized needs of round 1
    updated_files,  \* _apply_unified_diff's {path: text}, in insertion order
    calls,          \* every collaborator call made so far, with the entries into
                    \* fetch_callback and _apply_unified_diff: [op, arg, text, ok]
    \* --- one need through sanitization and the fetchers (SpecFetch)
    fpc,        \* "in" | "clean" | "fetched" | "sliced"
    fNeed,      \* the need the model asks for: [path, symbol, line, around_lines]
    fAllow,     \* the configured ALLOWED_PATHS
    fDefault,   \* the configured DEFAULT_AROUND_LINES
    fClean,     \* _sanitize_needs([fNeed])
    fFetched,   \* _fetch_callback(fClean): [calls, snips]
    fOut        \* the fetcher applied to fNeed as it stands: [calls, snips]

pathVars == <<ppc, pPath, pAllow, pRoot, pRel1, pRel2, pAllowed>>
diffVars == <<dpc, dOrig, dNew, dDiff, dParsed, dOut, dStats>>
runVars == <<pc, outcome, ALLOWED_PATHS, event, body, requested_files, in_scope_files,
             seed_snips, all_snips, reply, result, needs, updated_files, calls>>
fetchVars == <<fpc, fNeed, fAllow, fDefault, fClean, fFetched, fOut>>
vars == <<pathVars, diffVars, runVars, fetchVars>>
\* what each harness leaves alone
pathOthers == <<diffVars, runVars, fetchVars>>
diffOthers == <<pathVars, runVars, fetchVars>>
runOthers == <<pathVars, diffVars, fetchVars>>
fetchOthers == <<pathVars, diffVars, runVars>>

\* A harness that a specification does not run stays in its idle state.
PathIdle ==
    /\ ppc = "off" /\ pPath = "" /\ pAllow = <<>> /\ pRoot = ""
    /\ pRel1 = "" /\ pRel2 = "" /\ pAllowed = FALSE

DiffIdle ==
    /\ dpc = "off" /\ dOrig = "" /\ dNew = "" /\ dDiff = "" /\ dParsed = <<>>
    /\ dOut = [ok |-> FALSE, text |-> ""] /\ dStats = <<0, 0>>

NoResult == [action |-> "", needs |-> <<>>, diff |-> "", reason |-> ""]
NoReply == [kind |-> "", action |-> "", needs |-> <<>>, diff |-> ""]

RunIdle ==
    /\ pc = "off" /\ outcome = "" /\ ALLOWED_PATHS = <<>>
    /\ event = [action |-> "", labels |-> {}, label |-> "", comment |-> <<>>] /\ body = <<>>
    /\ requested_files = <<>> /\ in_scope_files = <<>> /\ seed_snips = <<>>
    /\ all_snips = <<>> /\ reply = NoReply /\ result = NoResult
    /\ needs = <<>> /\ updated_files = <<>> /\ calls = <<>>

NoNeed == [path |-> "", symbol |-> "", line |-> 0, around_lines |-> 0]
NoFetch == [calls |-> <<>>, snips |-> <<>>]

FetchIdle ==
    /\ fpc = "off" /\ fNeed = NoNeed /\ fAllow = <<>> /\ fDefault = 0
    /\ fClean = <<>> /\ fFetched = NoFetch /\ fOut = NoFetch

(***************************************************************************)
(* Python string primitives                                                *)
(***************************************************************************)
Ch(s, i) == SubSeq(s, i, i)

StartsWith(s, pre) == Len(s) >= Len(pre) /\ SubSeq(s, 1, Len(pre)) = pre

EndsWith(s, suf) == Len(s) >= Len(suf) /\ SubSeq(s, Len(s) - Len(suf) + 1, Len(s)) = suf

\* the Python slice s[i-1:j] of a string: indices past the end are clipped
StrSlice(s, i, j) ==
    IF i > Len(s) \/ j < i THEN ""
    ELSE SubSeq(s, i, IF j > Len(s) THEN Len(s) ELSE j)

\* str.find: the first index (1-based) at which sub occurs in s, 0 when it does not
Find(s, sub) ==
    LET idx == {i \in 1..(Len(s) - Len(sub) + 1) : SubSeq(s, i, i + Len(sub) - 1) = sub}
    IN  IF idx = {} THEN 0 ELSE CHOOSE i \in idx : \A j \in idx : i <= j

\* "sub in s"
Contains(s, sub) == Find(s, sub) # 0

\* s.split(sep), sep non-empty
RECURSIVE Split(_, _)
Split(s, sep) ==
    LET i == Find(s, sep)
    IN  IF i = 0 THEN <<s>>
        ELSE <<SubSeq(s, 1, i - 1)>> \o Split(SubSeq(s, i + Len(sep), Len(s)), sep)

\* s.split(sep, 1)[1], used only when sep occurs in s
AfterFirst(s, sep) == SubSeq(s, Find(s, sep) + Len(sep), Len(s))

\* sep.join(parts)
RECURSIVE Join(_, _)
Join(parts, sep) ==
    IF parts = <<>> THEN ""
    ELSE IF Len(parts) = 1 THEN parts[1]
    ELSE parts[1] \o sep \o Join(Tail(parts), sep)

Whitespace == {" ", "\t", "\n", "\r"}

\* s.lstrip(chars)
RECURSIVE LStrip(_, _)
LStrip(s, chars) ==
    IF s # "" /\ Ch(s, 1) \in chars THEN LStrip(SubSeq(s, 2, Len(s)), chars) ELSE s

RECURSIVE RStrip(_, _)
RStrip(s, chars) ==
    IF s # "" /\ Ch(s, Len(s)) \in chars THEN RStrip(SubSeq(s, 1, Len(s) - 1), chars) ELSE s

\* s.strip()
Strip(s) == RStrip(LStrip(s, Whitespace), Whitespace)

\* s.replace("\\", "/")
RECURSIVE ReplaceBackslash(_)
ReplaceBackslash(s) ==
    IF s = "" THEN ""
    ELSE (IF Ch(s, 1) = "\\" THEN "/" ELSE Ch(s, 1)) \o ReplaceBackslash(SubSeq(s, 2, Len(s)))

\* [x for x in xs if x]
RECURSIVE NonEmpty(_)
NonEmpty(xs) ==
    IF xs = <<>> THEN <<>>
    ELSE (IF xs[1] = "" THEN <<>> ELSE <<xs[1]>>) \o NonEmpty(Tail(xs))

(***************************************************************************)
(* os.path (posixpath) as _to_repo_relative uses it                        *)
(***************************************************************************)
IsAbs(p) == StartsWith(p, "/")

\* The components normpath keeps for an ABSOLUTE path: "" and "." dropped,
\* ".." pops a component, and is dropped at the root.
RECURSIVE NormComps(_, _)
NormComps(comps, acc) ==
    IF comps = <<>> THEN acc
    ELSE LET c == comps[1] IN
         IF c \in {"", "."} THEN NormComps(Tail(comps), acc)
         ELSE IF c # ".." THEN NormComps(Tail(comps), Append(acc, c))
         ELSE IF acc # <<>> THEN NormComps(Tail(comps), SubSeq(acc, 1, Len(acc) - 1))
         ELSE NormComps(Tail(comps), acc)

AbsComps(p) == NormComps(Split(p, "/"), <<>>)

\* len(os.path.commonprefix([a, b])) on component lists
RECURSIVE CommonLen(_, _)
CommonLen(a, b) ==
    IF a # <<>> /\ b # <<>> /\ a[1] = b[1] THEN 1 + CommonLen(Tail(a), Tail(b)) ELSE 0

\* os.path.relpath(p, start) for absolute p and absolute start
RelPath(p, start) ==
    LET sl == AbsComps(start)
        pl == AbsComps(p)
        i  == CommonLen(sl, pl)
        rel == [k \in 1..(Len(sl) - i) |-> ".."] \o SubSeq(pl, i + 1, Len(pl))
    IN  IF rel = <<>> THEN "." ELSE Join(rel, "/")

(***************************************************************************)
(* PathSandbox                                                             *)
(***************************************************************************)
\* the generic system directories of handlers.py line 87
SystemDirs == {"Users", "home", "tmp", "var", "opt", "usr", "bin", "sbin", "etc"}

\* rel.lstrip("./").lstrip("/")
LStripDotSlash(s) == LStrip(LStrip(s, {".", "/"}), {"/"})

\* the loop of lines 83-91: the first part that is non-empty, not the last and
\* not a system directory; 0 when there is none
ProjectPartIndex(parts) ==
    LET idx == {i \in 1..(Len(parts) - 1) : parts[i] # "" /\ parts[i] \notin SystemDirs}
    IN  IF idx = {} THEN 0 ELSE CHOOSE i \in idx : \A j \in idx : i <= j

ToRepoRelativeWith(path, repoName, repoRoot) ==
    LET p0 == ReplaceBackslash(Strip(path))
        needle == "/" \o repoName \o "/"
        p == IF Contains(p0, needle) THEN AfterFirst(p0, needle) ELSE p0
        parts == Split(p, "/")
        k == ProjectPartIndex(parts)
        srcParts == Split(p, "/src/")
    IN  IF IsAbs(p) /\ Contains(p, repoRoot)
            THEN LStripDotSlash(RelPath(p, repoRoot))
        ELSE IF IsAbs(p) /\ k # 0
            THEN Join(SubSeq(parts, k, Len(parts)), "/")
        ELSE IF IsAbs(p) /\ Contains(p, "/src/") /\ Len(srcParts) > 1
            THEN "src/" \o srcParts[2]
        ELSE IF ~StartsWith(p, "/") /\ ~StartsWith(p, repoRoot) /\ ~IsAbs(p)
            THEN LStripDotSlash(p)
        ELSE LStripDotSlash(RelPath(p, repoRoot))

\* a in allowed_prefixes normalized to end with "/"
WithSlash(a) == IF EndsWith(a, "/") THEN a ELSE a \o "/"

PrefixMatches(p, a) ==
    \/ a = ""
    \/ p = SubSeq(WithSlash(a), 1, Len(WithSlash(a)) - 1)
    \/ StartsWith(p, WithSlash(a))

PathAllowedWithIn(path, allowed, repoName, repoRoot) ==
    IF allowed = <<>> \/ (\E i \in 1..Len(allowed) : allowed[i] = "") THEN TRUE
    ELSE LET p == ToRepoRelativeWith(path, repoName, repoRoot)
         IN  \E i \in 1..Len(allowed) : PrefixMatches(p, allowed[i])

(***************************************************************************)
(* DiffEngine: _parse_unified_diff, _apply_hunks_to_text, _diff_stats      *)
(***************************************************************************)
\* text.splitlines() for texts whose only line boundary is "\n"
SplitLines(text) ==
    IF text = "" THEN <<>>
    ELSE LET parts == Split(text, "\n")
         IN  IF parts[Len(parts)] = "" THEN SubSeq(parts, 1, Len(parts) - 1) ELSE parts

DigitChars == "0123456789"

IsDigit(c) == c # "" /\ Contains(DigitChars, c)

\* the end of the longest run of digits of s that starts at i (i - 1 when s[i] is no digit)
RECURSIVE DigitsEnd(_, _)
DigitsEnd(s, i) ==
    IF i <= Len(s) /\ IsDigit(Ch(s, i)) THEN DigitsEnd(s, i + 1) ELSE i - 1

\* int(s) for a non-empty string of digits
RECURSIVE ParseInt(_)
ParseInt(s) ==
    IF s = "" THEN 0
    ELSE 10 * ParseInt(SubSeq(s, 1, Len(s) - 1)) + (Find(DigitChars, Ch(s, Len(s))) - 1)

\* One side of _HUNK_RE, (\d+),?(\d+)? read from index i of the line:
\* [ok, start, len, next] with len defaulting to 1 (int(m.group(2) or "1")).
HunkRange(line, i) ==
    LET e1 == DigitsEnd(line, i)
        comma == e1 + 1 <= Len(line) /\ Ch(line, e1 + 1) = ","
        j == IF comma THEN e1 + 2 ELSE e1 + 1
        e2 == DigitsEnd(line, j)
    IN  IF e1 < i THEN [ok |-> FALSE, start |-> 0, len |-> 0, next |-> i]
        ELSE [ok |-> TRUE,
              start |-> ParseInt(SubSeq(line, i, e1)),
              len |-> IF e2 >= j THEN ParseInt(SubSeq(line, j, e2)) ELSE 1,
              next |-> e2 + 1]

\* _HUNK_RE.match(line): ^@@ -(\d+),?(\d+)? \+(\d+),?(\d+)? @@
HunkHeader(line) ==
    LET none == [ok |-> FALSE, old_start |-> 0, old_len |-> 0, new_start |-> 0, new_len |-> 0]
    IN  IF ~StartsWith(line, "@@ -") THEN none
        ELSE LET o == HunkRange(line, 5)
             IN  IF ~o.ok \/ StrSlice(line, o.next, o.next + 1) # " +" THEN none
                 ELSE LET n == HunkRange(line, o.next + 2)
                      IN  IF ~n.ok \/ StrSlice(line, n.next, n.next + 2) # " @@" THEN none
                          ELSE [ok |-> TRUE, old_start |-> o.start, old_len |-> o.len,
                                new_start |-> n.start, new_len |-> n.len]

\* the inner loop of lines 292-294: the first index >= i whose line starts
\* with "@@" or "--- a/", Len(lines) + 1 when there is none
RECURSIVE HunkBodyEnd(_, _)
HunkBodyEnd(lines, i) ==
    IF i <= Len(lines) /\ ~StartsWith(lines[i], "@@") /\ ~StartsWith(lines[i], "--- a/")
    THEN HunkBodyEnd(lines, i + 1) ELSE i

\* files.setdefault(path, []): files is the ordered mapping, a sequence of
\* [path, hunks] in order of first appearance
FileIndex(files, path) ==
    LET idx == {k \in 1..Len(files) : files[k].path = path}
    IN  IF idx = {} THEN 0 ELSE CHOOSE k \in idx : TRUE

SetDefault(files, path) ==
    IF FileIndex(files, path) # 0 THEN files ELSE Append(files, [path |-> path, hunks |-> <<>>])

AppendHunk(files, path, h) ==
    [files EXCEPT ![FileIndex(files, path)].hunks = Append(@, h)]

\* the while loop of _parse_unified_diff; cur is cur_file, "none" standing for None
RECURSIVE ParseLoop(_, _, _, _)
ParseLoop(lines, i, cur, files) ==
    IF i > Len(lines) THEN files
    ELSE LET line == lines[i]
             m == HunkHeader(line)
         IN  IF /\ StartsWith(line, "--- a/")
                /\ i + 1 <= Len(lines)
                /\ StartsWith(lines[i + 1], "+++ b/")
             THEN LET path == SubSeq(lines[i + 1], 7, Len(lines[i + 1]))
                  IN  ParseLoop(lines, i + 2, [set |-> TRUE, path |-> path], SetDefault(files, path))
             ELSE IF m.ok /\ cur.set /\ cur.path # ""
             THEN LET e == HunkBodyEnd(lines, i + 1)
                      h == [old_start |-> m.old_start, old_len |-> m.old_len,
                            new_start |-> m.new_start, new_len |-> m.new_len,
                            lines |-> SubSeq(lines, i + 1, e - 1)]
                  IN  ParseLoop(lines, e, cur, AppendHunk(files, cur.path, h))
             ELSE ParseLoop(lines, i + 1, cur, files)

ParseUnifiedDiff(diff_text) ==
    ParseLoop(SplitLines(diff_text), 1, [set |-> FALSE, path |-> ""], <<>>)

\* the for loop over one hunk's lines (lines 322-338): st = [dst, src_cursor]
RECURSIVE HunkLines(_, _, _)
HunkLines(src, hl, st) ==
    IF hl = <<>> THEN st
    ELSE LET ln == hl[1]
             copied == IF st.src_cursor <= Len(src)
                       THEN Append(st.dst, src[st.src_cursor]) ELSE st.dst
         IN  IF StartsWith(ln, " ")
                 THEN HunkLines(src, Tail(hl), [dst |-> copied, src_cursor |-> st.src_cursor + 1])
             ELSE IF StartsWith(ln, "-")
                 THEN HunkLines(src, Tail(hl), [dst |-> st.dst, src_cursor |-> st.src_cursor + 1])
             ELSE IF StartsWith(ln, "+")
                 THEN HunkLines(src, Tail(hl),
                                [dst |-> Append(st.dst, SubSeq(ln, 2, Len(ln))),
                                 src_cursor |-> st.src_cursor])
             ELSE HunkLines(src, Tail(hl), [dst |-> copied, src_cursor |-> st.src_cursor + 1])

\* the for loop over the hunks (lines 309-341): st = [ok, dst, cursor]; ok turns
\* FALSE when src[cursor - 1] is read past the end of src (IndexError)
RECURSIVE ApplyLoop(_, _, _)
ApplyLoop(src, hunks, st) ==
    IF hunks = <<>> \/ ~st.ok THEN st
    ELSE LET h == hunks[1]
             upto == IF h.old_start > st.cursor THEN h.old_start ELSE st.cursor
         IN  IF h.old_start > st.cursor /\ h.old_start - 1 > Len(src)
             THEN [ok |-> FALSE, dst |-> st.dst, cursor |-> st.cursor]
             ELSE LET r == HunkLines(src, h.lines,
                                     [dst |-> st.dst \o SubSeq(src, st.cursor, upto - 1),
                                      src_cursor |-> upto])
                  IN  ApplyLoop(src, Tail(hunks),
                                [ok |-> TRUE, dst |-> r.dst, cursor |-> r.src_cursor])

\* A variant of ApplyHunksToText that stops after the last hunk: the original
\* lines after it are not copied.
ApplyHunksWithoutRest(orig_text, hunks) ==
    LET src == SplitLines(orig_text)
        r == ApplyLoop(src, hunks, [ok |-> TRUE, dst |-> <<>>, cursor |-> 1])
    IN  IF ~r.ok THEN [ok |-> FALSE, text |-> ""]
        ELSE [ok |-> TRUE, text |-> Join(r.dst, "\n")]

\* _apply_hunks_to_text: [ok, text]; ok = FALSE stands for the IndexError raised
ApplyHunksToText(orig_text, hunks) ==
    LET src == SplitLines(orig_text)
        r == ApplyLoop(src, hunks, [ok |-> TRUE, dst |-> <<>>, cursor |-> 1])
    IN  IF ~r.ok THEN [ok |-> FALSE, text |-> ""]
        ELSE [ok |-> TRUE, text |-> Join(r.dst \o SubSeq(src, r.cursor, Len(src)), "\n")]

\* A variant of DiffStats that also counts the file header lines as changes.
DiffStatsCountingHeaders(diff_text) ==
    LET lines == SplitLines(diff_text)
    IN  <<Cardinality({SubSeq(lines[i], 7, Len(lines[i])) :
                          i \in {k \in 1..Len(lines) : StartsWith(lines[k], "+++ b/")}}),
          Cardinality({k \in 1..Len(lines) :
                          StartsWith(lines[k], "+") \/ StartsWith(lines[k], "-")})>>

\* _diff_stats: <<files_touched, changed_lines>>
RECURSIVE StatsLoop(_, _, _)
StatsLoop(lines, files, changes) ==
    IF lines = <<>> THEN <<Cardinality(files), changes>>
    ELSE LET ln == lines[1] IN
         IF StartsWith(ln, "--- a/") THEN StatsLoop(Tail(lines), files, changes)
         ELSE IF StartsWith(ln, "+++ b/")
             THEN StatsLoop(Tail(lines), files \cup {SubSeq(ln, 7, Len(ln))}, changes)
         ELSE IF StartsWith(ln, "+") /\ ~StartsWith(ln, "+++")
             THEN StatsLoop(Tail(lines), files, changes + 1)
         ELSE IF StartsWith(ln, "-") /\ ~StartsWith(ln, "---")
             THEN StatsLoop(Tail(lines), files, changes + 1)
         ELSE StatsLoop(Tail(lines), files, changes)

DiffStats(diff_text) == StatsLoop(SplitLines(diff_text), {}, 0)

(***************************************************************************)
(* Configuration of the sandbox (handlers.py lines 24-41: read from the    *)
(* environment).  REPO_ROOT is GITHUB_WORKSPACE, an absolute directory.    *)
(***************************************************************************)
REPO_NAME == "r"

\* the workspaces a run may have: one that does not hold the repository name,
\* and the hosted runner's <work>/<name>/<name>
RepoRoots == {"/w/k", "/w/r/r"}

(***************************************************************************)
(* SpecPath: the sandbox functions applied to bounded inputs               *)
(***************************************************************************)
MaxPieces == 4

PathPieces == {"r/", "src/", "x", ".", "/"}

PathHeads == {"", "/", "src/", "../", " ", "/etc/", "x/"} \cup {rt \o "/" : rt \in RepoRoots}

RECURSIVE PieceStrings(_)
PieceStrings(n) ==
    IF n = 0 THEN {""}
    ELSE LET shorter == PieceStrings(n - 1)
         IN  shorter \cup {s \o piece : s \in shorter, piece \in PathPieces}

PathInputs == {h \o t : h \in PathHeads, t \in PieceStrings(MaxPieces)}

AllowLists == {<<>>, <<"">>, <<"src/">>, <<"src", "x/">>}

PathInit ==
    /\ ppc = "in"
    /\ pPath \in PathInputs
    /\ pAllow \in AllowLists
    /\ pRoot \in RepoRoots
    /\ pRel1 = ""
    /\ pRel2 = ""
    /\ pAllowed = FALSE
    /\ DiffIdle
    /\ RunIdle
    /\ FetchIdle

\* _to_repo_relative(path)
PNormalize ==
    /\ ppc = "in"
    /\ pRel1' = ToRepoRelativeWith(pPath, REPO_NAME, pRoot)
    /\ ppc' = "rel1"
    /\ UNCHANGED <<pPath, pAllow, pRoot, pRel2, pAllowed>>
    /\ UNCHANGED pathOthers

\* _to_repo_relative applied to its own result
PRenormalize ==
    /\ ppc = "rel1"
    /\ pRel2' = ToRepoRelativeWith(pRel1, REPO_NAME, pRoot)
    /\ ppc' = "rel2"
    /\ UNCHANGED <<pPath, pAllow, pRoot, pRel1, pAllowed>>
    /\ UNCHANGED pathOthers

\* _path_allowed_with(path, allowed_prefixes)
PCheckAllowed ==
    /\ ppc = "rel2"
    /\ pAllowed' = PathAllowedWithIn(pPath, pAllow, REPO_NAME, pRoot)
    /\ ppc' = "checked"
    /\ UNCHANGED <<pPath, pAllow, pRoot, pRel1, pRel2>>
    /\ UNCHANGED pathOthers

PathNext == PNormalize \/ PRenormalize \/ PCheckAllowed

SpecPath == PathInit /\ [][PathNext]_vars

(***************************************************************************)
(* SpecDiff: the diff engine applied to the unified diffs of bounded edit  *)
(* scripts.  An edit script is a sequence of ops K (keep), D (delete) and  *)
(* I (insert); A is its K and D lines, B its K and I lines.  The diff is   *)
(* rendered as diff -U<ctx> renders it: hunks of the changes with up to    *)
(* ctx kept lines around them, "@@ -s[,l] +s[,l] @@" headers (an empty     *)
(* range starts at the line before it), and the "\ No newline at end of    *)
(* file" marker after the last line of a side that lacks its final newline.*)
(***************************************************************************)
MaxOps == 4
MaxCtx == 2

DiffLinePool == {"a", "b"}

DiffPath == "src/f"

EditOps == [k : {"K", "D", "I"}, t : DiffLinePool]

EditScripts == UNION {[1..m -> EditOps] : m \in 1..MaxOps}

IsOldOp(o) == o.k # "I"
IsNewOp(o) == o.k # "D"
IsChange(o) == o.k # "K"

OldLines(script) == LET x == SelectSeq(script, IsOldOp) IN [i \in 1..Len(x) |-> x[i].t]
NewLines(script) == LET x == SelectSeq(script, IsNewOp) IN [i \in 1..Len(x) |-> x[i].t]

\* a text of the given lines, with or without the final newline
TextOf(lines, nl) == Join(lines, "\n") \o (IF nl THEN "\n" ELSE "")

LastIndex(script, Test(_)) ==
    LET idx == {i \in 1..Len(script) : Test(script[i])}
    IN  IF idx = {} THEN 0 ELSE CHOOSE i \in idx : \A j \in idx : j <= i

\* op i of the script is the last line of A (B) and that side lacks its final newline
OldUnterminated(script, nlA, i) == ~nlA /\ i = LastIndex(script, IsOldOp)
NewUnterminated(script, nlB, i) == ~nlB /\ i = LastIndex(script, IsNewOp)

\* the script is an edit script from A to B as a diff tool writes it: it
\* changes something, deletions come before insertions in a run of changes, a
\* side without lines has no final newline, and a kept line is the same line,
\* terminator included, on both sides
ValidScript(script, nlA, nlB) ==
    /\ \E i \in 1..Len(script) : IsChange(script[i])
    /\ \A i \in 1..(Len(script) - 1) : ~(script[i].k = "I" /\ script[i + 1].k = "D")
    /\ (nlA => OldLines(script) # <<>>)
    /\ (nlB => NewLines(script) # <<>>)
    /\ \A i \in 1..Len(script) :
          script[i].k = "K" => (OldUnterminated(script, nlA, i) <=> NewUnterminated(script, nlB, i))

\* op i belongs to a hunk: a change, or a kept line within ctx lines of one
InHunk(script, ctx, i) ==
    \E j \in 1..Len(script) : IsChange(script[j]) /\ i - j <= ctx /\ j - i <= ctx

RECURSIVE HunkEnd(_, _, _)
HunkEnd(script, ctx, i) ==
    IF i + 1 <= Len(script) /\ InHunk(script, ctx, i + 1) THEN HunkEnd(script, ctx, i + 1) ELSE i

RECURSIVE Digits(_)
Digits(n) == IF n < 10 THEN Ch(DigitChars, n + 1) ELSE Digits(n \div 10) \o Ch(DigitChars, (n % 10) + 1)

\* "s,l"; ",1" may be left out
RangeText(start, len, short) ==
    IF len = 1 /\ short THEN Digits(start) ELSE Digits(start) \o "," \o Digits(len)

NoNewlineMarker == "\\ No newline at end of file"

OpLines(script, nlA, nlB, i) ==
    LET o == script[i]
        mark == IF o.k = "K" THEN " " ELSE IF o.k = "D" THEN "-" ELSE "+"
    IN  <<mark \o o.t>> \o
        (IF \/ (IsOldOp(o) /\ OldUnterminated(script, nlA, i))
            \/ (IsNewOp(o) /\ NewUnterminated(script, nlB, i))
         THEN <<NoNewlineMarker>> ELSE <<>>)

RECURSIVE BodyLines(_, _, _, _, _)
BodyLines(script, nlA, nlB, lo, hi) ==
    IF lo > hi THEN <<>>
    ELSE OpLines(script, nlA, nlB, lo) \o BodyLines(script, nlA, nlB, lo + 1, hi)

HunkText(script, nlA, nlB, short, lo, hi) ==
    LET before == SubSeq(script, 1, lo - 1)
        inside == SubSeq(script, lo, hi)
        oldLen == Len(SelectSeq(inside, IsOldOp))
        newLen == Len(SelectSeq(inside, IsNewOp))
        oldBefore == Len(SelectSeq(before, IsOldOp))
        newBefore == Len(SelectSeq(before, IsNewOp))
        oldStart == IF oldLen = 0 THEN oldBefore ELSE oldBefore + 1
        newStart == IF newLen = 0 THEN newBefore ELSE newBefore + 1
    IN  <<"@@ -" \o RangeText(oldStart, oldLen, short) \o " +"
               \o RangeText(newStart, newLen, short) \o " @@">>
        \o BodyLines(script, nlA, nlB, lo, hi)

RECURSIVE HunksText(_, _, _, _, _, _)
HunksText(script, ctx, nlA, nlB, short, i) ==
    IF i > Len(script) THEN <<>>
    ELSE IF ~InHunk(script, ctx, i) THEN HunksText(script, ctx, nlA, nlB, short, i + 1)
    ELSE LET hi == HunkEnd(script, ctx, i)
         IN  HunkText(script, nlA, nlB, short, i, hi)
             \o HunksText(script, ctx, nlA, nlB, short, hi + 1)

RECURSIVE Unlines(_)
Unlines(lines) == IF lines = <<>> THEN "" ELSE lines[1] \o "\n" \o Unlines(Tail(lines))

UnifiedDiff(path, script, ctx, nlA, nlB, short) ==
    Unlines(<<"--- a/" \o path, "+++ b/" \o path>>
            \o HunksText(script, ctx, nlA, nlB, short, 1))

\* diffs written out in full: [orig, new, faithful, diff]; a faithful diff is
\* the one a diff tool writes for the change of DiffPath from orig to new,
\* with sections for other files
FileHeader(path) == "--- a/" \o path \o "\n+++ b/" \o path \o "\n"

TwoFiles ==
    [orig |-> "a\nb\n", new |-> "b\nb\n", faithful |-> TRUE,
     diff |-> FileHeader(DiffPath) \o "@@ -1,2 +1,2 @@\n-a\n+b\n b\n"
              \o FileHeader("src/g") \o "@@ -1 +1,2 @@\n-a\n+b\n+a\n"]

\* a hunk made against an older text of the file: its context line is not the
\* line of orig (faithful = FALSE: the diff is not the one from orig to new)
StaleContext ==
    [orig |-> "a\nb\n", new |-> "x\nc\n", faithful |-> FALSE,
     diff |-> FileHeader(DiffPath) \o "@@ -1,2 +1,2 @@\n x\n-b\n+c\n"]

\* the change of DiffPath followed by the section of a file that is created
NewFile ==
    [orig |-> "a\n", new |-> "b\n", faithful |-> TRUE,
     diff |-> FileHeader(DiffPath) \o "@@ -1 +1 @@\n-a\n+b\n"
              \o "--- /dev/null\n+++ b/src/g\n@@ -0,0 +1 @@\n+a\n"]

\* the deletion of a line whose text is "-- a/x"
MarkerText ==
    [orig |-> "a\n-- a/x\nb\n", new |-> "a\nb\n", faithful |-> TRUE,
     diff |-> FileHeader(DiffPath) \o "@@ -1,3 +1,2 @@\n a\n--- a/x\n b\n"]

\* the replacement of the line "-- x" by the line "++ x"
DashText ==
    [orig |-> "-- x\nb\n", new |-> "++ x\nb\n", faithful |-> TRUE,
     diff |-> FileHeader(DiffPath) \o "@@ -1,2 +1,2 @@\n--- x\n+++ x\n b\n"]

\* two hunks of which the second starts inside the first
Overlapping ==
    [orig |-> "a\nb\na\n", new |-> "a\nb\na\n", faithful |-> FALSE,
     diff |-> FileHeader(DiffPath) \o "@@ -1,3 +1,3 @@\n a\n b\n a\n@@ -2,2 +2,0 @@\n-b\n-a\n"]

LiteralDiffs == {TwoFiles, StaleContext, NewFile, MarkerText, DashText, Overlapping}

DiffInit ==
    /\ dpc = "in"
    /\ \/ \E script \in EditScripts, ctx \in 0..MaxCtx, nlA \in BOOLEAN, nlB \in BOOLEAN,
             short \in BOOLEAN :
             /\ ValidScript(script, nlA, nlB)
             /\ dOrig = TextOf(OldLines(script), nlA)
             /\ dNew = TextOf(NewLines(script), nlB)
             /\ dDiff = UnifiedDiff(DiffPath, script, ctx, nlA, nlB, short)
       \/ \E d \in LiteralDiffs : dOrig = d.orig /\ dNew = d.new /\ dDiff = d.diff
    /\ dParsed = <<>>
    /\ dOut = [ok |-> FALSE, text |-> ""]
    /\ dStats = <<0, 0>>
    /\ PathIdle
    /\ RunIdle
    /\ FetchIdle

\* parse(diffText)
DParse ==
    /\ dpc = "in"
    /\ dParsed' = ParseUnifiedDiff(dDiff)
    /\ dpc' = "parsed"
    /\ UNCHANGED <<dOrig, dNew, dDiff, dOut, dStats>>
    /\ UNCHANGED diffOthers

\* apply(A, parse(diff)[path]); a path missing from the parse is a KeyError
DApply ==
    /\ dpc = "parsed"
    /\ dOut' = IF FileIndex(dParsed, DiffPath) = 0 THEN [ok |-> FALSE, text |-> ""]
               ELSE ApplyHunksToText(dOrig, dParsed[FileIndex(dParsed, DiffPath)].hunks)
    /\ dpc' = "applied"
    /\ UNCHANGED <<dOrig, dNew, dDiff, dParsed, dStats>>
    /\ UNCHANGED diffOthers

\* stats(diffText)
DStats ==
    /\ dpc = "applied"
    /\ dStats' = DiffStats(dDiff)
    /\ dpc' = "counted"
    /\ UNCHANGED <<dOrig, dNew, dDiff, dParsed, dOut>>
    /\ UNCHANGED diffOthers

DiffNext == DParse \/ DApply \/ DStats

SpecDiff == DiffInit /\ [][DiffNext]_vars

(***************************************************************************)
(* handle_issue_event: configuration and the world of one run              *)
(***************************************************************************)
REPO_ROOT == "/w/k"
GITHUB_REPOSITORY == "o/r"
TRIGGER_LABELS == {"agent-fix", "auto-pr"}
MAX_FILES == 2
MAX_LINES == 3
AROUND_LINES == 60

\* The allow-lists a run is configured with.
RunAllowLists == {<<"src/">>, <<>>}

\* The files on the base branch.
RepoFiles ==
    ("src/a" :> "a\nb\n") @@ ("src/b" :> "x\ndef f\n") @@ ("etc/p" :> "s\n")
    @@ ("src/e" :> "")
    @@ ("src/l" :> "a\nb\nc\nd\ne\nf\ng\nh\ni\nj\nk\nl\nm\nn\no\np\nq\nr\ns\nt\nu\nv\nw\nx\ny\nz\nA\nB\nC\nD\n")

\* fileExists(path, ref) of the VCS collaborator
FileExists(path) == path \in DOMAIN RepoFiles

ToRepoRelative(path) == ToRepoRelativeWith(path, REPO_NAME, REPO_ROOT)

PathAllowed(path, allowed) == PathAllowedWithIn(path, allowed, REPO_NAME, REPO_ROOT)

\* One collaborator call as the log records it.
Call(op, arg) == [op |-> op, arg |-> arg, text |-> "", ok |-> TRUE]

\* The calls cs are made in this order; f = 0 when all of them return, else the
\* f-th call raises and the calls after it are never made.
Attempt(cs, f) ==
    IF f = 0 THEN cs
    ELSE [i \in 1..f |-> IF i = f THEN [cs[i] EXCEPT !.ok = FALSE] ELSE cs[i]]

\* The ways the calls cs can go.
Failures(cs) == 0..Len(cs)

(***************************************************************************)
(* handle_issue_event: the trigger check and the reading of the body       *)
(***************************************************************************)
Triggered(ev) ==
    /\ \/ ev.action \in {"opened", "reopened"}
       \/ ev.action = "labeled"
       \/ ev.labels \cap TRIGGER_LABELS # {}
    /\ ~(ev.action = "labeled" /\ ev.label # "" /\ ev.label \notin TRIGGER_LABELS)

current_repo_name ==
    IF Contains(GITHUB_REPOSITORY, "/") THEN AfterFirst(GITHUB_REPOSITORY, "/")
    ELSE GITHUB_REPOSITORY

NoWhitespace(s) == \A i \in 1..Len(s) : Ch(s, i) \notin Whitespace

\* the longest prefix of s without whitespace: what [^\s]+ takes
RECURSIVE Token(_)
Token(s) ==
    IF s = "" \/ Ch(s, 1) \in Whitespace THEN ""
    ELSE Ch(s, 1) \o Token(SubSeq(s, 2, Len(s)))

\* the longest prefix of s without whitespace or "/": what [^/\s]+ takes
RECURSIVE Segment(_)
Segment(s) ==
    IF s = "" \/ Ch(s, 1) \in (Whitespace \cup {"/"}) THEN ""
    ELSE Ch(s, 1) \o Segment(SubSeq(s, 2, Len(s)))

\* the last index of character c in s, 0 when there is none
LastIndexOf(s, c) ==
    LET idx == {i \in 1..Len(s) : Ch(s, i) = c}
    IN  IF idx = {} THEN 0 ELSE CHOOSE i \in idx : \A j \in idx : j <= i

\* r'Target:\s*([^/\s]+/[^/\s]+):([^\s]+)' on the line "Target: " \o arg
OwnerRepoMatch(arg) ==
    LET q == LStrip(arg, Whitespace)
        owner == Segment(q)
        rest == StrSlice(q, Len(owner) + 2, Len(q))
        seg == Segment(rest)
        colons == {i \in 2..Len(seg) : Ch(seg, i) = ":" /\ i < Len(rest)
                                        /\ Ch(rest, i + 1) \notin Whitespace}
        k == CHOOSE i \in colons : \A j \in colons : j <= i
    IN  IF owner # "" /\ StrSlice(q, Len(owner) + 1, Len(owner) + 1) = "/" /\ colons # {}
        THEN [ok |-> TRUE, repo |-> owner \o "/" \o SubSeq(seg, 1, k - 1)]
        ELSE [ok |-> FALSE, repo |-> ""]

\* r'Target:\s*([^/\s]+)/([^\s]+)' on the line "Target: " \o arg
RepoNameMatch(arg) ==
    LET q == LStrip(arg, Whitespace)
        name == Segment(q)
        file == Token(StrSlice(q, Len(name) + 2, Len(q)))
    IN  IF name # "" /\ StrSlice(q, Len(name) + 1, Len(name) + 1) = "/" /\ file # ""
        THEN [ok |-> TRUE, repo_name |-> name, file_path |-> file]
        ELSE [ok |-> FALSE, repo_name |-> "", file_path |-> ""]

\* re.search: the first of the matching positions idx, 0 when there is none
FirstMatch(idx) ==
    IF idx = {} THEN 0 ELSE CHOOSE i \in idx : \A j \in idx : i <= j

\* the lines of the body of kind k
LinesOf(b, k) == {i \in 1..Len(b) : b[i].kind = k}

IsOwnerRepo(arg) == OwnerRepoMatch(arg).ok
IsRepoName(arg) == RepoNameMatch(arg).ok
AnyArg(arg) == TRUE

\* cross_repo_patterns: the repository the body refers to, "" when neither
\* pattern matches or the first match of a pattern names this repository
CrossRepoRef(b) ==
    LET t == FirstMatch({i \in LinesOf(b, "target") : IsOwnerRepo(b[i].arg)})
        u == FirstMatch({i \in LinesOf(b, "url") : AnyArg(b[i].arg)})
        foreign(r) == r # GITHUB_REPOSITORY /\ r # current_repo_name
    IN  IF t # 0 /\ foreign(OwnerRepoMatch(b[t].arg).repo) THEN OwnerRepoMatch(b[t].arg).repo
        ELSE IF u # 0 /\ foreign(b[u].arg) THEN b[u].arg
        ELSE ""

\* body.replace("Target: name/file", "Target: file")
ReplaceTarget(b, name, file) ==
    [i \in 1..Len(b) |->
        IF b[i].kind = "target" /\ StartsWith(b[i].arg, name \o "/" \o file)
        THEN [b[i] EXCEPT !.arg = StrSlice(b[i].arg, Len(name) + 2, Len(b[i].arg))]
        ELSE b[i]]

(***************************************************************************)
(* handle_issue_event: file detection                                      *)
(***************************************************************************)
\* re.search(r'Target:\s*(.+)', line).group(1).strip().strip('"\'') of the
\* line "Target: " \o arg
TargetFile(arg) ==
    LET rest == " " \o arg
        g == IF LStrip(rest, Whitespace) # "" THEN LStrip(rest, Whitespace)
             ELSE Ch(rest, Len(rest))
        quotes == {"\"", "'"}
    IN  RStrip(LStrip(Strip(g), quotes), quotes)

RECURSIVE TargetFiles(_)
TargetFiles(b) ==
    IF b = <<>> THEN <<>>
    ELSE (IF Head(b).kind = "target" THEN <<TargetFile(Head(b).arg)>> ELSE <<>>)
         \o TargetFiles(Tail(b))

\* the matches of the two traceback_patterns over a body whose traceback
\* lines read: File "arg", line N
RECURSIVE QuotedMatches(_)
QuotedMatches(b) ==
    IF b = <<>> THEN <<>>
    ELSE (IF Head(b).kind = "trace" /\ Head(b).arg # "" /\ ~Contains(Head(b).arg, "\"")
          THEN <<Head(b).arg>> ELSE <<>>)
         \o QuotedMatches(Tail(b))

RECURSIVE BareMatches(_)
BareMatches(b) ==
    IF b = <<>> THEN <<>>
    ELSE (IF Head(b).kind = "trace" /\ NoWhitespace(Head(b).arg)
             /\ ~Contains(Head(b).arg, ",")
          THEN <<"\"" \o Head(b).arg \o "\"">> ELSE <<>>)
         \o BareMatches(Tail(b))

InSeq(x, xs) == \E i \in 1..Len(xs) : xs[i] = x

RECURSIVE AddTracebackFiles(_, _, _)
AddTracebackFiles(matches, files, allowed) ==
    IF matches = <<>> THEN files
    ELSE LET file_path == ToRepoRelative(Head(matches))
         IN  AddTracebackFiles(Tail(matches),
                 IF file_path # "" /\ PathAllowed(file_path, allowed)
                    /\ ~InSeq(file_path, files)
                 THEN Append(files, file_path) ELSE files,
                 allowed)

ExplicitFiles(b, allowed) ==
    AddTracebackFiles(QuotedMatches(b) \o BareMatches(b), TargetFiles(b), allowed)

\* the first of the candidates that passes the allow-list, as a list
FirstAllowed(cands, allowed) ==
    LET idx == {i \in 1..Len(cands) : PathAllowed(cands[i], allowed)}
    IN  IF idx = {} THEN <<>> ELSE <<cands[CHOOSE i \in idx : \A j \in idx : i <= j]>>

\* no explicit file: one common file name per allowed directory
RECURSIVE CommonFiles(_, _)
CommonFiles(dirs, allowed) ==
    IF dirs = <<>> THEN <<>>
    ELSE LET d == Head(dirs)
         IN  FirstAllowed(<<d \o "main.py", d \o "app.py", d \o "index.py",
                            d \o "src/main.py", d \o "src/app.py",
                            d \o "lib/main.py", d \o "lib/app.py">>, allowed)
             \o CommonFiles(Tail(dirs), allowed)

\* os.path.dirname and os.path.basename
Dirname(p) ==
    LET head == SubSeq(p, 1, LastIndexOf(p, "/"))
    IN  IF head # "" /\ LStrip(head, {"/"}) # "" THEN RStrip(head, {"/"}) ELSE head

Basename(p) == SubSeq(p, LastIndexOf(p, "/") + 1, Len(p))

\* the inner loop over potential_files: acc is [calls, files]
RECURSIVE ProbeCandidates(_, _, _)
ProbeCandidates(cands, acc, allowed) ==
    IF cands = <<>> THEN acc
    ELSE IF ~PathAllowed(Head(cands), allowed)
         THEN ProbeCandidates(Tail(cands), acc, allowed)
    ELSE LET probed == [acc EXCEPT !.calls = Append(@, Call("file_exists", Head(cands)))]
         IN  IF FileExists(Head(cands))
             THEN [probed EXCEPT !.files = Append(@, Head(cands))]
             ELSE ProbeCandidates(Tail(cands), probed, allowed)

\* the loop over ALLOWED_PATHS for one missing explicit file
RECURSIVE ProbeDirs(_, _, _, _)
ProbeDirs(dirs, file_path, acc, allowed) ==
    IF dirs = <<>> THEN acc
    ELSE LET d == Head(dirs)
             missing_dir == Dirname(file_path)
             missing_filename == Basename(file_path)
         IN  IF StartsWith(d, missing_dir) \/ StartsWith(missing_dir, RStrip(d, {"/"}))
             THEN LET after == ProbeCandidates(
                          <<d \o missing_filename, d \o "main.py", d \o "app.py",
                            d \o "index.py">>, acc, allowed)
                  IN  IF after.files # <<>> THEN after
                      ELSE ProbeDirs(Tail(dirs), file_path, after, allowed)
             ELSE ProbeDirs(Tail(dirs), file_path, acc, allowed)

\* the loop over explicit_files: which of them exist, and the calls it makes
RECURSIVE ProbeExplicit(_, _, _)
ProbeExplicit(files, acc, allowed) ==
    IF files = <<>> THEN acc
    ELSE LET probed == [acc EXCEPT !.calls = Append(@, Call("file_exists", Head(files)))]
         IN  ProbeExplicit(Tail(files),
                 IF FileExists(Head(files))
                 THEN [probed EXCEPT !.files = Append(@, Head(files))]
                 ELSE ProbeDirs(allowed, Head(files), probed, allowed),
                 allowed)

\* requested_files = [normalized], split by the allow-list
RECURSIVE ScopeOf(_, _, _)
ScopeOf(files, allowed, inScope) ==
    IF files = <<>> THEN <<>>
    ELSE LET normalized_path == ToRepoRelative(Head(files))
         IN  (IF PathAllowed(normalized_path, allowed) = inScope
              THEN <<normalized_path>> ELSE <<>>)
             \o ScopeOf(Tail(files), allowed, inScope)

(***************************************************************************)
(* Snippet fetching                                                        *)
(***************************************************************************)
Min(a, b) == IF a < b THEN a ELSE b
Max(a, b) == IF a > b THEN a ELSE b

\* the Python slice seq[i:j] of a list: a negative index counts from the end
PySlice(seq, i, j) ==
    LET n == Len(seq)
        lo == IF i < 0 THEN Max(0, n + i) ELSE Min(i, n)
        hi == IF j < 0 THEN Max(0, n + j) ELSE Min(j, n)
    IN  IF hi <= lo THEN <<>> ELSE SubSeq(seq, lo + 1, hi)

\* the snippet of lines[start - 1 : end]
Snippet(path, lines, start, end) ==
    [path |-> path, start_line |-> start, end_line |-> end,
     code |-> Join(PySlice(lines, start - 1, end), "\n")]

\* A variant of FetchSlice whose window is not cut at the end of the file.
FetchSliceUnclamped(path, center_line, around, allowed) ==
    LET shown == <<Call("file_exists", path)>>
        lines == SplitLines(RepoFiles[path])
    IN  IF ~PathAllowed(path, allowed) THEN [calls |-> shown, snips |-> <<>>]
        ELSE IF ~FileExists(path)
             THEN [calls |-> Append(shown, Call("file_exists", path)), snips |-> <<>>]
        ELSE [calls |-> shown \o <<Call("file_exists", path), Call("get_file_text", path)>>,
              snips |-> IF center_line < 1 \/ center_line > Len(lines)
                        THEN <<Snippet(path, lines, 1, 2 * around)>>
                        ELSE <<Snippet(path, lines, Max(1, center_line - around),
                                       center_line + around)>>]

\* _fetch_slice(path, base, center_line, around): [calls, snips], snips empty
\* for None; center_line 0 stands for None
FetchSlice(path, center_line, around, allowed) ==
    LET shown == <<Call("file_exists", path)>>
        lines == SplitLines(RepoFiles[path])
        n == Len(lines)
    IN  IF ~PathAllowed(path, allowed) THEN [calls |-> shown, snips |-> <<>>]
        ELSE IF ~FileExists(path)
             THEN [calls |-> Append(shown, Call("file_exists", path)), snips |-> <<>>]
        ELSE [calls |-> shown \o <<Call("file_exists", path), Call("get_file_text", path)>>,
              snips |-> IF center_line < 1 \/ center_line > n
                        THEN <<Snippet(path, lines, 1, Min(n, 2 * around))>>
                        ELSE <<Snippet(path, lines, Max(1, center_line - around),
                                       Min(n, center_line + around))>>]

WordChars == "abcdefghijklmnopqrstuvwxyz_" \o DigitChars

IsWordChar(c) == c # "" /\ Contains(WordChars, c)

\* re.compile(rf'^\s*(def|class)\s+{symbol}\b').search(line)
DefLine(line, symbol) ==
    \E kw \in {"def", "class"} :
        LET l == LStrip(line, Whitespace)
            rest == StrSlice(l, Len(kw) + 1, Len(l))
            name == LStrip(rest, Whitespace)
        IN  /\ StartsWith(l, kw)
            /\ name # rest
            /\ StartsWith(name, symbol)
            /\ ~IsWordChar(StrSlice(name, Len(symbol) + 1, Len(symbol) + 1))

\* _fetch_symbol_slice(path, base, symbol, around)
FetchSymbolSlice(path, symbol, around, allowed) ==
    LET lines == SplitLines(RepoFiles[path])
        IsDef(l) == DefLine(l, symbol)
        Mentions(l) == Contains(l, symbol)
        defs == FirstMatch({i \in 1..Len(lines) : IsDef(lines[i])})
        idx == IF defs # 0 THEN defs
               ELSE FirstMatch({i \in 1..Len(lines) : Mentions(lines[i])})
    IN  IF ~PathAllowed(path, allowed) THEN [calls |-> <<>>, snips |-> <<>>]
        ELSE IF ~FileExists(path)
             THEN [calls |-> <<Call("file_exists", path)>>, snips |-> <<>>]
        ELSE [calls |-> <<Call("file_exists", path), Call("get_file_text", path)>>,
              snips |-> IF idx = 0 THEN <<>>
                        ELSE <<Snippet(path, lines, Max(1, idx - around),
                                       Min(Len(lines), idx + around))>>]

\* a loop of fetches: acc is [calls, snips]
Gather(acc, got) == [calls |-> acc.calls \o got.calls, snips |-> acc.snips \o got.snips]

\* the loop that fetches the seed snippets of in_scope_files
RECURSIVE FetchSeeds(_, _, _)
FetchSeeds(files, acc, allowed) ==
    IF files = <<>> THEN acc
    ELSE FetchSeeds(Tail(files),
                    Gather(acc, FetchSlice(Head(files), 0, AROUND_LINES, allowed)),
                    allowed)

\* _fetch_callback(needs); a need is [path, symbol, line, around_lines], with ""
\* and 0 for an absent symbol, line or around_lines
RECURSIVE FetchCallback(_, _, _)
FetchCallback(ns, acc, allowed) ==
    IF ns = <<>> THEN acc
    ELSE LET n == Head(ns)
             around == IF n.around_lines # 0 THEN n.around_lines ELSE AROUND_LINES
             normalized_path == ToRepoRelative(n.path)
         IN  FetchCallback(Tail(ns),
                 IF ~PathAllowed(normalized_path, allowed) THEN acc
                 ELSE IF n.symbol # ""
                      THEN Gather(acc, FetchSymbolSlice(normalized_path, n.symbol, around,
                                                        allowed))
                 ELSE Gather(acc, FetchSlice(normalized_path, n.line, around, allowed)),
                 allowed)

(***************************************************************************)
(* TicketWatcherAgent                                                      *)
(***************************************************************************)
\* allowed_paths or _parse_allowed_paths_env(os.getenv("ALLOWED_PATHS", ...))
AgentAllowedPaths(allowed) == IF allowed = <<>> THEN <<"src/">> ELSE allowed

\* TicketWatcherAgent._path_allowed
AgentPathAllowed(path, allowed_paths) ==
    /\ path # ""
    /\ \E i \in 1..Len(allowed_paths) : StartsWith(path, allowed_paths[i])

\* A variant of SanitizeNeeds that drops no need.
KeepAllNeeds(ns, allowed_paths, default_around_lines) == ns

\* TicketWatcherAgent._sanitize_needs
RECURSIVE SanitizeNeeds(_, _, _)
SanitizeNeeds(ns, allowed_paths, default_around_lines) ==
    IF ns = <<>> THEN <<>>
    ELSE LET n == Head(ns)
             around == IF n.around_lines # 0 THEN n.around_lines ELSE default_around_lines
         IN  (IF ~AgentPathAllowed(n.path, allowed_paths) THEN <<>>
              ELSE <<[n EXCEPT !.around_lines = Max(10, Min(around, default_around_lines))]>>)
             \o SanitizeNeeds(Tail(ns), allowed_paths, default_around_lines)

\* the result _call_llm makes up for a reply it cannot use
Synthetic(why) ==
    [action |-> "request_context", needs |-> <<>>, diff |-> "", reason |-> why]

\* _call_llm after the model has answered. The reply is what json.loads makes
\* of the text: kind "invalid" (JSONDecodeError), "array", "string", "number"
\* (a decoded value that is not an object) or "object", whose action is one of
\* the two known actions, "" (missing), "other" (an unknown string) or
\* "list" (a JSON array, which is unhashable)
CallLLM(r) ==
    IF r.kind = "invalid"
    THEN [raised |-> FALSE, result |-> Synthetic("Model did not return valid JSON.")]
    ELSE IF r.kind # "object" THEN [raised |-> TRUE, result |-> NoResult]
    ELSE IF r.action = "list" THEN [raised |-> TRUE, result |-> NoResult]
    ELSE IF r.action \notin {"request_context", "propose_patch"}
         THEN [raised |-> FALSE, result |-> Synthetic("Missing or invalid 'action'.")]
    ELSE [raised |-> FALSE,
          result |-> [action |-> r.action, needs |-> r.needs, diff |-> r.diff,
                      reason |-> ""]]

(***************************************************************************)
(* _apply_unified_diff                                                     *)
(***************************************************************************)
\* A variant of ApplyFiles that skips a file outside the allow-list and goes
\* on with the files after it.
RECURSIVE ApplyFilesSkipping(_, _, _)
ApplyFilesSkipping(parsed, acc, allowed) ==
    IF parsed = <<>> THEN acc
    ELSE LET path == Head(parsed).path
             read == [acc EXCEPT !.calls = Append(@, Call("get_file_text", path))]
             out == ApplyHunksToText(RepoFiles[path], Head(parsed).hunks)
         IN  IF ~PathAllowedWithIn(path, allowed, REPO_NAME, REPO_ROOT)
             THEN ApplyFilesSkipping(Tail(parsed), acc, allowed)
             ELSE IF ~FileExists(path) \/ ~out.ok THEN [read EXCEPT !.error = TRUE]
             ELSE ApplyFilesSkipping(Tail(parsed),
                                     [read EXCEPT !.updated = Append(@, [path |-> path,
                                                                         text |-> out.text])],
                                     allowed)

\* The loop over the parsed files: acc is [calls, updated, error]. A file the
\* base branch does not have makes get_file_text raise.
RECURSIVE ApplyFiles(_, _, _)
ApplyFiles(parsed, acc, allowed) ==
    IF parsed = <<>> THEN acc
    ELSE LET path == Head(parsed).path
             read == [acc EXCEPT !.calls = Append(@, Call("get_file_text", path))]
             out == ApplyHunksToText(RepoFiles[path], Head(parsed).hunks)
         IN  IF ~PathAllowed(path, allowed) THEN [acc EXCEPT !.error = TRUE]
             ELSE IF ~FileExists(path)
                  THEN [acc EXCEPT !.calls = Append(@, [Call("get_file_text", path)
                                                         EXCEPT !.ok = FALSE]),
                                   !.error = TRUE]
             ELSE IF ~out.ok THEN [read EXCEPT !.error = TRUE]
             ELSE ApplyFiles(Tail(parsed),
                             [read EXCEPT !.updated = Append(@, [path |-> path,
                                                                 text |-> out.text])],
                             allowed)

ApplyUnifiedDiff(diff_text, allowed) ==
    ApplyFiles(ParseUnifiedDiff(diff_text),
               [calls |-> <<>>, updated |-> <<>>, error |-> FALSE], allowed)

(***************************************************************************)
(* The inputs of a run (Spec)                                              *)
(***************************************************************************)
MaxNeeds == 2

Events ==
    {[action |-> "opened", labels |-> {}, label |-> "", comment |-> <<>>],
     [action |-> "reopened", labels |-> {"bug"}, label |-> "", comment |-> <<>>],
     [action |-> "labeled", labels |-> {"bug"}, label |-> "bug", comment |-> <<>>],
     [action |-> "labeled", labels |-> {"agent-fix"}, label |-> "agent-fix", comment |-> <<>>],
     [action |-> "labeled", labels |-> {"agent-fix", "bug"}, label |-> "bug", comment |-> <<>>],
     [action |-> "labeled", labels |-> {}, label |-> "", comment |-> <<>>],
     [action |-> "edited", labels |-> {"auto-pr"}, label |-> "", comment |-> <<>>],
     [action |-> "edited", labels |-> {}, label |-> "", comment |-> <<>>]}

Line(kind, arg) == [kind |-> kind, arg |-> arg]

Bodies ==
    {<<>>,
     <<Line("text", "it crashes")>>,
     <<Line("target", "a")>>,
     <<Line("target", "r/src/a")>>,
     <<Line("target", "src/a")>>,
     <<Line("target", "/etc/p")>>,
     <<Line("target", "r/src/zz"), Line("target", "src/b")>>,
     <<Line("trace", "/w/k/src/a")>>,
     <<Line("target", "r/src/a"), Line("target", "r/src/a"), Line("trace", "/w/k/src/b")>>,
     <<Line("url", "o2/r2")>>}

\* an issue event and the body of its issue: every body for an opened issue,
\* every event for an issue with an empty body
Issues ==
    {<<e, b>> \in Events \X Bodies : e.action = "opened" \/ b = <<>>}

\* the comment events: [action, labels of the issue, comment], with the body of
\* the issue
CommentEvent(action, labels, comment) ==
    [action |-> action, labels |-> labels, label |-> "", comment |-> comment]

CommentIssues ==
    {<<CommentEvent("created", {"agent-fix"},
                    <<Line("text", "/agent fix"), Line("target", "src/a")>>), <<>>>>,
     <<CommentEvent("created", {"agent-fix"}, <<Line("text", " /Agent Fix now")>>), <<>>>>,
     <<CommentEvent("created", {}, <<Line("text", "/agent fix")>>),
       <<Line("target", "src/a")>>>>,
     <<CommentEvent("created", {"agent-fix"}, <<Line("text", "please fix")>>),
       <<Line("target", "src/a")>>>>,
     <<CommentEvent("edited", {"agent-fix"}, <<Line("text", "/agent fix")>>),
       <<Line("target", "src/a")>>>>,
     <<CommentEvent("created", {"agent-fix"}, <<>>), <<>>>>}

\* the deliveries: the handler entered ("event" for handle_issue_event,
\* "comment" for handle_issue_comment_event), the event and the issue body
Deliveries ==
    {<<"event", i[1], i[2]>> : i \in Issues}
    \cup {<<"comment", c[1], c[2]>> : c \in CommentIssues}

\* the files_needed of the model's answer to the question which files it needs
AiFileLists == {<<>>, <<"src/a">>}

Need(path, symbol, line, around) ==
    [path |-> path, symbol |-> symbol, line |-> line, around_lines |-> around]

NeedPool == {Need("src/b", "", 2, 0), Need("/etc/p", "", 0, 0), Need("src/b", "f", 0, 200)}

RECURSIVE SeqsUpTo(_, _)
SeqsUpTo(S, n) ==
    IF n = 0 THEN {<<>>}
    ELSE LET shorter == SeqsUpTo(S, n - 1)
         IN  shorter \cup UNION {{Append(s, x) : x \in S \ {s[i] : i \in 1..Len(s)}} :
                                     s \in shorter}

NeedLists == SeqsUpTo(NeedPool, MaxNeeds)

\* the diffs the model proposes: up to two sections, each one hunk of one
\* file, and two diffs of three files
DiffPaths == {"src/a", "src/b", "etc/p", "../src/a"}

Replace1 == "@@ -1 +1 @@\n-a\n+c\n"
Insert1 == "@@ -1,0 +2 @@\n+c\n"
Beyond == "@@ -9 +9 @@\n-a\n+c\n"
\* a hunk that inserts the lines "++ x", "++ y", "c" and "d"
Hidden == "@@ -1,2 +1,6 @@\n a\n+++ x\n+++ y\n+c\n+d\n b\n"
\* a hunk that declares three original lines and consumes one
Mismatch == "@@ -1,3 +1 @@\n-a\n+c\n"

Section(path, hunk) == "--- a/" \o path \o "\n+++ b/" \o path \o "\n" \o hunk

Sections ==
    {Section(p, h) : p \in DiffPaths, h \in {Replace1, Insert1}}
    \cup {Section("src/a", Beyond)}

RunDiffs ==
    {"", Section("src/a", Mismatch), Section("src/a", Hidden)} \cup Sections \cup {s \o t : s \in Sections, t \in Sections}
    \cup {Section("src/a", Insert1) \o Section("src/b", Insert1) \o Section(p, Insert1) :
            p \in {"src/c", "etc/p"}}

Reply(kind, action, ns, diff) ==
    [kind |-> kind, action |-> action, needs |-> ns, diff |-> diff]

Replies ==
    {Reply(k, "", <<>>, "") : k \in {"invalid", "array", "string", "number"}}
    \cup {Reply("object", a, <<>>, "") : a \in {"", "other", "list"}}
    \cup {Reply("object", "request_context", ns, "") : ns \in NeedLists}
    \cup {Reply("object", "propose_patch", <<>>, d) : d \in RunDiffs}

Comment == Call("add_issue_comment", "issue")

RunInit ==
    /\ outcome = ""
    /\ ALLOWED_PATHS \in RunAllowLists
    /\ \E d \in Deliveries : pc = d[1] /\ event = d[2] /\ body = d[3]
    /\ requested_files = <<>>
    /\ in_scope_files = <<>>
    /\ seed_snips = <<>>
    /\ all_snips = <<>>
    /\ reply = NoReply
    /\ result = NoResult
    /\ needs = <<>>
    /\ updated_files = <<>>
    /\ calls = <<>>
    /\ PathIdle
    /\ DiffIdle
    /\ FetchIdle

(***************************************************************************)
(* handle_issue_event, one action per stretch of code between two          *)
(* collaborator calls                                                      *)
(***************************************************************************)
\* the run ends by an exception that leaves handle_issue_event
Raised == pc' = "done" /\ outcome' = "Raised"

\* the calls cs, then add_issue_comment(number, ...) and return None
Report(cs, out) ==
    \E f \in Failures(Append(cs, Comment)) :
        /\ calls' = calls \o Attempt(Append(cs, Comment), f)
        /\ pc' = "done"
        /\ outcome' = IF f = 0 THEN out ELSE "Raised"

\* the calls made in a try block whose except clause reports and returns None
ReportCaught(made, out) ==
    \E f \in Failures(<<Comment>>) :
        /\ calls' = calls \o made \o Attempt(<<Comment>>, f)
        /\ pc' = "done"
        /\ outcome' = IF f = 0 THEN out ELSE "Raised"

UpperChars == "ABCDEFGHIJKLMNOPQRSTUVWXYZ"
LowerChars == "abcdefghijklmnopqrstuvwxyz"

\* str.lower
RECURSIVE Lower(_)
Lower(s) ==
    IF s = "" THEN ""
    ELSE LET c == Ch(s, 1)
             k == Find(UpperChars, c)
         IN  (IF k = 0 THEN c ELSE Ch(LowerChars, k)) \o Lower(SubSeq(s, 2, Len(s)))

\* comment_body.strip().lower().startswith("/agent fix"); the text of a comment
\* starts with its first line
IsCommand(comment) ==
    /\ comment # <<>>
    /\ comment[1].kind = "text"
    /\ StartsWith(Lower(Strip(comment[1].arg)), "/agent fix")

\* handle_issue_comment_event up to its call of handle_issue_event
HandleComment ==
    /\ pc = "comment"
    /\ IF event.action # "created" \/ ~IsCommand(event.comment)
       THEN pc' = "done" /\ outcome' = "NoAction" /\ body' = body
       ELSE pc' = "event" /\ outcome' = outcome
            /\ body' = body \o <<Line("text", "")>> \o event.comment
    /\ UNCHANGED <<ALLOWED_PATHS, event, requested_files, in_scope_files, seed_snips,
                   all_snips, reply, result, needs, updated_files, calls>>
    /\ UNCHANGED runOthers

\* the trigger check
Trigger ==
    /\ pc = "event"
    /\ IF Triggered(event) THEN pc' = "base" /\ outcome' = outcome
       ELSE pc' = "done" /\ outcome' = "NoAction"
    /\ UNCHANGED <<ALLOWED_PATHS, event, body, requested_files, in_scope_files, seed_snips,
                   all_snips, reply, result, needs, updated_files, calls>>
    /\ UNCHANGED runOthers

\* base = get_default_branch()
GetDefaultBranch ==
    /\ pc = "base"
    /\ \E f \in Failures(<<Call("get_default_branch", "")>>) :
          /\ calls' = calls \o Attempt(<<Call("get_default_branch", "")>>, f)
          /\ IF f = 0 THEN pc' = "crossrepo" /\ outcome' = outcome ELSE Raised
    /\ UNCHANGED <<ALLOWED_PATHS, event, body, requested_files, in_scope_files, seed_snips,
                   all_snips, reply, result, needs, updated_files>>
    /\ UNCHANGED runOthers

\* the cross-repository checks
CrossRepoCheck ==
    /\ pc = "crossrepo"
    /\ LET t == FirstMatch({i \in LinesOf(body, "target") : IsRepoName(body[i].arg)})
           m == RepoNameMatch(body[t].arg)
       IN  IF CrossRepoRef(body) # ""
              \/ (t # 0 /\ m.repo_name # current_repo_name
                        /\ m.repo_name # GITHUB_REPOSITORY)
           THEN Report(<<>>, "CrossRepository") /\ body' = body
           ELSE /\ body' = IF t # 0 /\ m.repo_name = current_repo_name
                           THEN ReplaceTarget(body, m.repo_name, m.file_path)
                           ELSE body
                /\ pc' = "detect"
                /\ UNCHANGED <<outcome, calls>>
    /\ UNCHANGED <<ALLOWED_PATHS, event, requested_files, in_scope_files, seed_snips,
                   all_snips, reply, result, needs, updated_files>>
    /\ UNCHANGED runOthers

\* what detection settles on
DetectedFiles(explicit_files, existing_files, allowed) ==
    IF explicit_files = <<>> THEN CommonFiles(allowed, allowed)
    ELSE IF existing_files # <<>> THEN existing_files
    ELSE explicit_files

\* file detection from the body, with the probing of explicit files
DetectFiles ==
    /\ pc = "detect"
    /\ \E explicit_files \in {ExplicitFiles(body, ALLOWED_PATHS)} :
       \E probe \in {ProbeExplicit(explicit_files, [calls |-> <<>>, files |-> <<>>],
                                   ALLOWED_PATHS)} :
       \E f \in Failures(probe.calls) :
          /\ calls' = calls \o Attempt(probe.calls, f)
          /\ IF f # 0 THEN Raised /\ requested_files' = requested_files
             ELSE /\ requested_files' = DetectedFiles(explicit_files, probe.files,
                                                      ALLOWED_PATHS)
                  /\ pc' = IF requested_files' = <<>> THEN "askmodel" ELSE "scope"
                  /\ outcome' = outcome
    /\ UNCHANGED <<ALLOWED_PATHS, event, body, in_scope_files, seed_snips,
                   all_snips, reply, result, needs, updated_files>>
    /\ UNCHANGED runOthers

\* nothing detected: ask the model which files it needs; a failure of the
\* call is caught
AskModelForFiles ==
    /\ pc = "askmodel"
    /\ \E files \in AiFileLists, ok \in BOOLEAN :
          /\ calls' = Append(calls, [Call("chat_completions", "files_needed")
                                     EXCEPT !.ok = ok])
          /\ requested_files' = IF ok THEN files ELSE <<>>
    /\ pc' = "scope"
    /\ UNCHANGED <<outcome, ALLOWED_PATHS, event, body, in_scope_files, seed_snips,
                   all_snips, reply, result, needs, updated_files>>
    /\ UNCHANGED runOthers

\* the scope check of the requested files
ScopeCheck ==
    /\ pc = "scope"
    /\ \E inside \in {ScopeOf(requested_files, ALLOWED_PATHS, TRUE)} :
       \E out_of_scope_files \in {ScopeOf(requested_files, ALLOWED_PATHS, FALSE)} :
          IF out_of_scope_files # <<>>
          THEN Report(<<>>, "OutOfScope") /\ in_scope_files' = in_scope_files
          ELSE IF inside = <<>>
               THEN Report(<<>>, "NoFiles") /\ in_scope_files' = in_scope_files
          ELSE /\ in_scope_files' = inside
               /\ pc' = "seed"
               /\ UNCHANGED <<outcome, calls>>
    /\ UNCHANGED <<ALLOWED_PATHS, event, body, requested_files, seed_snips,
                   all_snips, reply, result, needs, updated_files>>
    /\ UNCHANGED runOthers

\* the seed snippets of the in-scope files
FetchSeedSnippets ==
    /\ pc = "seed"
    /\ \E got \in {FetchSeeds(in_scope_files, [calls |-> <<>>, snips |-> <<>>],
                               ALLOWED_PATHS)} :
          IF got.snips = <<>>
          THEN Report(got.calls, "FilesNotFound") /\ seed_snips' = seed_snips
          ELSE \E f \in Failures(got.calls) :
                  /\ calls' = calls \o Attempt(got.calls, f)
                  /\ IF f # 0 THEN Raised /\ seed_snips' = seed_snips
                     ELSE seed_snips' = got.snips /\ pc' = "round1" /\ outcome' = outcome
    /\ UNCHANGED <<ALLOWED_PATHS, event, body, requested_files, in_scope_files,
                   all_snips, reply, result, needs, updated_files>>
    /\ UNCHANGED runOthers

\* self.run(...): one call of the model and _call_llm's reading of the reply.
\* next is the step after a result, final tells run_two_rounds to return it.
ModelCall == Call("chat_completions", "round")

\* run_two_rounds, round 1
Round1 ==
    /\ pc = "round1"
    /\ all_snips' = seed_snips
    /\ \E r \in Replies, ok \in BOOLEAN :
       \E out \in {CallLLM(r)} :
       \E cleaned \in {SanitizeNeeds(out.result.needs, AgentAllowedPaths(ALLOWED_PATHS),
                                     AROUND_LINES)} :
              /\ calls' = Append(calls, [ModelCall EXCEPT !.ok = ok])
              /\ IF ~ok THEN Raised /\ UNCHANGED <<reply, result, needs>>
                 ELSE IF out.raised
                      THEN Raised /\ reply' = r /\ UNCHANGED <<result, needs>>
                 ELSE /\ reply' = r
                      /\ result' = out.result
                      /\ outcome' = outcome
                      /\ IF out.result.action = "request_context" /\ cleaned # <<>>
                         THEN needs' = cleaned /\ pc' = "fetch"
                         ELSE needs' = needs /\ pc' = "result"
    /\ UNCHANGED <<ALLOWED_PATHS, event, body, requested_files, in_scope_files, seed_snips,
                   updated_files>>
    /\ UNCHANGED runOthers

\* run_two_rounds: more = fetch_callback(needs)
FetchNeeds ==
    /\ pc = "fetch"
    /\ \E got \in {FetchCallback(needs, [calls |-> <<>>, snips |-> <<>>], ALLOWED_PATHS)} :
       \E f \in Failures(got.calls) :
              /\ calls' = Append(calls, Call("fetch_callback", "")) \o Attempt(got.calls, f)
              /\ IF f # 0 THEN Raised /\ all_snips' = all_snips
                 ELSE /\ all_snips' = seed_snips \o got.snips
                      /\ pc' = "round2"
                      /\ outcome' = outcome
    /\ UNCHANGED <<ALLOWED_PATHS, event, body, requested_files, in_scope_files, seed_snips,
                   reply, result, needs, updated_files>>
    /\ UNCHANGED runOthers

\* run_two_rounds, round 2: its result is returned whatever it is
Round2 ==
    /\ pc = "round2"
    /\ \E r \in Replies, ok \in BOOLEAN :
       \E out \in {CallLLM(r)} :
              /\ calls' = Append(calls, [ModelCall EXCEPT !.ok = ok])
              /\ IF ~ok THEN Raised /\ UNCHANGED <<reply, result>>
                 ELSE IF out.raised THEN Raised /\ reply' = r /\ result' = result
                 ELSE reply' = r /\ result' = out.result /\ pc' = "result"
                      /\ outcome' = outcome
    /\ UNCHANGED <<ALLOWED_PATHS, event, body, requested_files, in_scope_files, seed_snips,
                   all_snips, needs, updated_files>>
    /\ UNCHANGED runOthers

\* A variant of OverBudget that also rejects a diff exactly at a maximum.
OverBudgetInclusive(files_touched, changed_lines) ==
    files_touched >= MAX_FILES \/ changed_lines >= MAX_LINES

\* files_touched > MAX_FILES or changed_lines > MAX_LINES
OverBudget(files_touched, changed_lines) ==
    files_touched > MAX_FILES \/ changed_lines > MAX_LINES

\* A variant of HandleResult that takes every result for a patch: a request for
\* context is checked against the budgets and applied as well.
HandleResultAsPatch ==
    /\ pc = "result"
    /\ \E stats \in {DiffStats(result.diff)} :
          IF OverBudget(stats[1], stats[2]) THEN Report(<<>>, "BudgetExceeded")
          ELSE pc' = "apply" /\ UNCHANGED <<outcome, calls>>
    /\ UNCHANGED <<ALLOWED_PATHS, event, body, requested_files, in_scope_files, seed_snips,
                   all_snips, reply, result, needs, updated_files>>
    /\ UNCHANGED runOthers

\* the agent's result: a request for context is reported, a patch is checked
\* against the budgets
HandleResult ==
    /\ pc = "result"
    /\ \E stats \in {DiffStats(result.diff)} :
          IF result.action = "request_context" THEN Report(<<>>, "RequestContext")
          ELSE IF OverBudget(stats[1], stats[2]) THEN Report(<<>>, "BudgetExceeded")
          ELSE pc' = "apply" /\ UNCHANGED <<outcome, calls>>
    /\ UNCHANGED <<ALLOWED_PATHS, event, body, requested_files, in_scope_files, seed_snips,
                   all_snips, reply, result, needs, updated_files>>
    /\ UNCHANGED runOthers

\* the entry into _apply_unified_diff, as the log records it
ApplyEntry == Call("_apply_unified_diff", "")

\* updated_files = _apply_unified_diff(base, diff); any exception is reported.
\* k = 0 when every get_file_text of an existing file returns, else the k-th
\* raises.
ApplyPatch ==
    /\ pc = "apply"
    /\ \E applied \in {ApplyUnifiedDiff(result.diff, ALLOWED_PATHS)} :
       \E k \in Failures(applied.calls) :
              IF k # 0 \/ applied.error
              THEN /\ ReportCaught(<<ApplyEntry>> \o Attempt(applied.calls, k),
                                   "PatchApplyFailed")
                   /\ updated_files' = updated_files
              ELSE /\ calls' = calls \o <<ApplyEntry>> \o applied.calls
                   /\ updated_files' = applied.updated
                   /\ pc' = "branch"
                   /\ outcome' = outcome
    /\ UNCHANGED <<ALLOWED_PATHS, event, body, requested_files, in_scope_files, seed_snips,
                   all_snips, reply, result, needs>>
    /\ UNCHANGED runOthers

\* create_branch(branch, base)
CreateBranch ==
    /\ pc = "branch"
    /\ \E f \in Failures(<<Call("create_branch", "")>>) :
          /\ calls' = calls \o Attempt(<<Call("create_branch", "")>>, f)
          /\ IF f # 0 THEN Raised
             ELSE pc' = (IF updated_files = <<>> THEN "pr" ELSE "commit")
                  /\ outcome' = outcome
    /\ UNCHANGED <<ALLOWED_PATHS, event, body, requested_files, in_scope_files, seed_snips,
                   all_snips, reply, result, needs, updated_files>>
    /\ UNCHANGED runOthers

\* create_or_update_file(path, text, ...) for the next of updated_files, which
\* here keeps the files still to be written
CommitFile ==
    /\ pc = "commit"
    /\ LET file == Head(updated_files)
           write == [Call("create_or_update_file", file.path) EXCEPT !.text = file.text]
       IN  \E f \in Failures(<<write>>) :
              /\ calls' = calls \o Attempt(<<write>>, f)
              /\ IF f # 0 THEN Raised /\ updated_files' = updated_files
                 ELSE /\ updated_files' = Tail(updated_files)
                      /\ pc' = (IF Tail(updated_files) = <<>> THEN "pr" ELSE "commit")
                      /\ outcome' = outcome
    /\ UNCHANGED <<ALLOWED_PATHS, event, body, requested_files, in_scope_files, seed_snips,
                   all_snips, reply, result, needs>>
    /\ UNCHANGED runOthers

\* create_pr(..., draft=True)
CreatePR ==
    /\ pc = "pr"
    /\ \E f \in Failures(<<Call("create_pr", "draft")>>) :
          /\ calls' = calls \o Attempt(<<Call("create_pr", "draft")>>, f)
          /\ IF f # 0 THEN Raised ELSE pc' = "prcomment" /\ outcome' = outcome
    /\ UNCHANGED <<ALLOWED_PATHS, event, body, requested_files, in_scope_files, seed_snips,
                   all_snips, reply, result, needs, updated_files>>
    /\ UNCHANGED runOthers

\* add_issue_comment(pr_number, pr_comment)
CommentOnPR ==
    /\ pc = "prcomment"
    /\ \E f \in Failures(<<Call("add_issue_comment", "pr")>>) :
          /\ calls' = calls \o Attempt(<<Call("add_issue_comment", "pr")>>, f)
          /\ IF f # 0 THEN Raised ELSE pc' = "notify" /\ outcome' = outcome
    /\ UNCHANGED <<ALLOWED_PATHS, event, body, requested_files, in_scope_files, seed_snips,
                   all_snips, reply, result, needs, updated_files>>
    /\ UNCHANGED runOthers

\* try: add_issue_comment(number, "Draft PR opened") except: pass; return pr_url
NotifyIssue ==
    /\ pc = "notify"
    /\ \E f \in Failures(<<Comment>>) : calls' = calls \o Attempt(<<Comment>>, f)
    /\ pc' = "done"
    /\ outcome' = "PullRequestOpened"
    /\ UNCHANGED <<ALLOWED_PATHS, event, body, requested_files, in_scope_files, seed_snips,
                   all_snips, reply, result, needs, updated_files>>
    /\ UNCHANGED runOthers

Next ==
    \/ HandleComment
    \/ Trigger \/ GetDefaultBranch \/ CrossRepoCheck \/ DetectFiles \/ AskModelForFiles
    \/ ScopeCheck \/ FetchSeedSnippets \/ Round1 \/ FetchNeeds \/ Round2 \/ HandleResult
    \/ ApplyPatch \/ CreateBranch \/ CommitFile \/ CreatePR \/ CommentOnPR \/ NotifyIssue

Spec == RunInit /\ [][Next]_vars

(***************************************************************************)
(* SpecFetch: one need of the model taken through _sanitize_needs and      *)
(* _fetch_callback, and the fetchers applied to the need as it stands      *)
(***************************************************************************)
FetchPaths ==
    {"src/b", "src/l", "src/e", "src/zz", "etc/p", "/etc/passwd", "./src/b", "src", ""}

\* line of a need or center_line of _fetch_slice; 0 stands for None
FetchLines == {0, 1, 2, 12, 30, 31}

\* around_lines of a need (0 also stands for an absent one) or around of a fetcher
FetchArounds == {-3, 0, 1, 5, 10, 60, 200}

FetchSymbols == {"", "f", "q"}

\* ALLOWED_PATHS as handlers.py reads it: no empty entry
FetchAllowLists == {<<"src/">>, <<"src">>, <<>>}

\* DEFAULT_AROUND_LINES
FetchDefaults == {5, 10, 60}

FetchInit ==
    /\ fpc = "in"
    /\ \E p \in FetchPaths, s \in FetchSymbols, l \in FetchLines, a \in FetchArounds :
          fNeed = Need(p, s, l, a)
    /\ fAllow \in FetchAllowLists
    /\ fDefault \in FetchDefaults
    /\ fClean = <<>>
    /\ fFetched = NoFetch
    /\ fOut = NoFetch
    /\ PathIdle
    /\ DiffIdle
    /\ RunIdle

\* agent._sanitize_needs(needs) of an agent made as handle_issue_event makes it
FSanitize ==
    /\ fpc = "in"
    /\ fClean' = SanitizeNeeds(<<fNeed>>, AgentAllowedPaths(fAllow), fDefault)
    /\ fpc' = "clean"
    /\ UNCHANGED <<fNeed, fAllow, fDefault, fFetched, fOut>>
    /\ UNCHANGED fetchOthers

\* _fetch_callback(needs) on the sanitized needs
FFetchNeeds ==
    /\ fpc = "clean"
    /\ fFetched' = FetchCallback(fClean, NoFetch, fAllow)
    /\ fpc' = "fetched"
    /\ UNCHANGED <<fNeed, fAllow, fDefault, fClean, fOut>>
    /\ UNCHANGED fetchOthers

\* _fetch_symbol_slice or _fetch_slice on the path, line and around of the need
FFetchDirect ==
    /\ fpc = "fetched"
    /\ fOut' = IF fNeed.symbol # ""
               THEN FetchSymbolSlice(fNeed.path, fNeed.symbol, fNeed.around_lines, fAllow)
               ELSE FetchSlice(fNeed.path, fNeed.line, fNeed.around_lines, fAllow)
    /\ fpc' = "sliced"
    /\ UNCHANGED <<fNeed, fAllow, fDefault, fClean, fFetched>>
    /\ UNCHANGED fetchOthers

FetchNext == FSanitize \/ FFetchNeeds \/ FFetchDirect

SpecFetch == FetchInit /\ [][FetchNext]_vars

(***************************************************************************)
(* Claims about sanitization and the fetchers (checked under SpecFetch)    *)
(***************************************************************************)
\* C12: a need is kept by _sanitize_needs if and only if _path_allowed holds
\* for its path under the configured allow-list; a kept need has its path,
\* symbol and line unchanged; a need for "/etc/passwd" is dropped and causes
\* no call of the fetch callback to the collaborator.
C12_SanitizeUsesSandbox ==
    fpc # "in" =>
        /\ (fClean # <<>>) <=> PathAllowed(fNeed.path, fAllow)
        /\ fClean # <<>> =>
              /\ fClean[1].path = fNeed.path
              /\ fClean[1].symbol = fNeed.symbol
              /\ fClean[1].line = fNeed.line
        /\ (fNeed.path = "/etc/passwd" /\ fpc \in {"fetched", "sliced"}) =>
              fClean = <<>> /\ fFetched = NoFetch

\* C13: every need that _sanitize_needs returns has around_lines between 10
\* and the configured default, whatever around_lines the model supplied
\* (absent, zero, negative, larger than the default).
C13_AroundClamped ==
    fpc # "in" =>
        \A i \in 1..Len(fClean) :
            10 <= fClean[i].around_lines /\ fClean[i].around_lines <= fDefault

\* the lines of the file at path, and lines first..last of them joined as code
LinesAt(path) == SplitLines(RepoFiles[path])

CodeOf(lines, first, last) ==
    LET lo == Max(1, first)
        hi == Min(Len(lines), last)
    IN  Join([k \in 1..(IF hi < lo THEN 0 ELSE hi - lo + 1) |-> lines[lo + k - 1]], "\n")

\* _fetch_slice was applied to an allowed, existing file
SlicedByLine ==
    /\ fpc = "sliced" /\ fNeed.symbol = ""
    /\ PathAllowed(fNeed.path, fAllow) /\ FileExists(fNeed.path)

\* C17: _fetch_slice on an allowed, existing file of n lines, with around not
\* negative, returns one snippet: lines max(1, center - around) to
\* min(n, center + around) when center is in 1..n; otherwise a snippet that
\* starts at line 1 and has at most 2 * around lines; its code is exactly the
\* lines start_line..end_line of the file.
C17_LineWindow ==
    (SlicedByLine /\ fNeed.around_lines >= 0) =>
        /\ Len(fOut.snips) = 1
        /\ LET sn == fOut.snips[1]
               n == Len(LinesAt(fNeed.path))
           IN  /\ sn.path = fNeed.path
               /\ IF fNeed.line \in 1..n
                  THEN /\ sn.start_line = Max(1, fNeed.line - fNeed.around_lines)
                       /\ sn.end_line = Min(n, fNeed.line + fNeed.around_lines)
                  ELSE /\ sn.start_line = 1
                       /\ sn.end_line - sn.start_line + 1 <= 2 * fNeed.around_lines
               /\ sn.code = CodeOf(LinesAt(fNeed.path), sn.start_line, sn.end_line)

\* C17 witness: center line 12 and around 5 on the file of 30 lines give the
\* snippet of lines 7 to 17.
C17_Witness ==
    /\ SlicedByLine
    /\ fNeed.path = "src/l" /\ fNeed.line = 12 /\ fNeed.around_lines = 5
    /\ Len(LinesAt("src/l")) = 30
    /\ fOut.snips = <<[path |-> "src/l", start_line |-> 7, end_line |-> 17,
                       code |-> "g\nh\ni\nj\nk\nl\nm\nn\no\np\nq"]>>

\* 1 <= start_line <= end_line <= number of lines of the snippet's file
WellFormed(sn) ==
    /\ 1 <= sn.start_line
    /\ sn.start_line <= sn.end_line
    /\ sn.end_line <= Len(LinesAt(sn.path))

\* C18: every snippet returned by _fetch_slice or _fetch_symbol_slice, called
\* directly or through the fetch callback on sanitized needs, has
\* 1 <= start_line <= end_line <= number of lines of its file.
C18_SnippetWellFormed ==
    /\ \A i \in 1..Len(fOut.snips) : WellFormed(fOut.snips[i])
    /\ \A i \in 1..Len(fFetched.snips) : WellFormed(fFetched.snips[i])

(***************************************************************************)
(* Claims about the path sandbox (checked under SpecPath)                  *)
(***************************************************************************)
\* A RepoPath of the data model: non-empty, forward slashes only, no
\* surrounding whitespace, no leading "/" or "./", no empty, "." or ".." segment.
IsRepoPath(p) ==
    /\ p # ""
    /\ \A i \in 1..Len(p) : Ch(p, i) \notin (Whitespace \cup {"\\"})
    /\ LET segs == Split(p, "/")
       IN  \A i \in 1..Len(segs) : segs[i] \notin {"", ".", ".."}

\* The reference definition of isAllowed (spec 4.1): allow-all for an empty
\* list or an empty-string entry, otherwise prefix match on the path itself.
RefIsAllowed(path, allowed) ==
    IF allowed = <<>> \/ (\E i \in 1..Len(allowed) : allowed[i] = "")
    THEN path # ""
    ELSE \E i \in 1..Len(allowed) :
            \/ path = SubSeq(WithSlash(allowed[i]), 1, Len(WithSlash(allowed[i])) - 1)
            \/ StartsWith(path, WithSlash(allowed[i]))

Restrictive(allowed) ==
    allowed # <<>> /\ \A i \in 1..Len(allowed) : allowed[i] # ""

\* C8: for every repo-relative path and every allow-list, _path_allowed_with
\* answers as the reference definition does (allow-all lists allow every
\* non-empty path; otherwise the path equals a prefix without its trailing
\* slash or starts with a prefix).
C8_IsAllowedMatchesReference ==
    (ppc = "checked" /\ IsRepoPath(pPath)) => (pAllowed <=> RefIsAllowed(pPath, pAllow))

\* C9: the empty path is not allowed under any allow-list.
C9_EmptyPathNeverAllowed ==
    (ppc = "checked" /\ pPath = "") => ~pAllowed

\* C10: _to_repo_relative is idempotent on every repo-relative path that starts
\* with an allowed prefix (and that the sandbox allows).
C10_ToRepoRelativeIdempotent ==
    (/\ ppc = "checked"
     /\ IsRepoPath(pPath)
     /\ Restrictive(pAllow)
     /\ \E i \in 1..Len(pAllow) : StartsWith(pPath, WithSlash(pAllow[i]))
     /\ pAllowed)
    => pRel2 = pRel1

\* the path r of a raw path of the form <repo root>/<r>, "" for any other path
UnderRoot(path, root) ==
    IF StartsWith(path, root \o "/") THEN StrSlice(path, Len(root) + 2, Len(path)) ELSE ""

\* C11: for every absolute path <repo root>/<r> with r a repo-relative path,
\* _to_repo_relative returns exactly r, whichever the repository root is (the
\* root <work>/<name>/<name> included).
C11_RelativizesAgainstRoot ==
    (ppc # "in" /\ IsRepoPath(UnderRoot(pPath, pRoot))) => pRel1 = UnderRoot(pPath, pRoot)

\* the path has a ".." segment
HasParentSegment(p) ==
    LET segs == Split(p, "/") IN \E i \in 1..Len(segs) : segs[i] = ".."

\* C24: under a restrictive allow-list _path_allowed_with accepts no path that
\* has a ".." segment.
C24_NoPathTraversal ==
    (ppc = "checked" /\ Restrictive(pAllow) /\ HasParentSegment(pPath)) => ~pAllowed

(***************************************************************************)
(* Claims about the diff engine (checked under SpecDiff)                   *)
(***************************************************************************)
\* C1: applying the parsed unified diff from A to B to A gives B exactly.
\* the diff under test is the diff from dOrig to dNew
Faithful == \A d \in LiteralDiffs : d.diff = dDiff => d.faithful

C1_RoundTrip ==
    (dpc \in {"applied", "counted"} /\ Faithful) => (dOut.ok /\ dOut.text = dNew)

\* the lines of the diff under test
DiffLines == SplitLines(dDiff)

\* the paths named on the lines that start with "+++ b/"
MarkedPaths(lines) ==
    {StrSlice(lines[i], 7, Len(lines[i])) :
        i \in {k \in 1..Len(lines) : StartsWith(lines[k], "+++ b/")}}

\* the lines that start with "+" ("-") and not with "+++" ("---")
AddedLines(lines) ==
    {k \in 1..Len(lines) : StartsWith(lines[k], "+") /\ ~StartsWith(lines[k], "+++")}

RemovedLines(lines) ==
    {k \in 1..Len(lines) : StartsWith(lines[k], "-") /\ ~StartsWith(lines[k], "---")}

\* C21: _diff_stats returns the number of distinct paths on the lines starting
\* with "+++ b/" and the number of lines starting with "+" or "-" that do not
\* start with "+++" or "---".
C21_StatsLineScan ==
    dpc = "counted" =>
        \E lines \in {DiffLines} :
            dStats = <<Cardinality(MarkedPaths(lines)),
                       Cardinality(AddedLines(lines) \cup RemovedLines(lines))>>

\* C21 witness: the diff with two "+++ b/" markers, 3 added and 2 removed lines
\* was counted as (2, 5).
C21_Witness ==
    /\ dpc = "counted" /\ dDiff = TwoFiles.diff
    /\ Cardinality(MarkedPaths(DiffLines)) = 2
    /\ Cardinality(AddedLines(DiffLines)) = 3
    /\ Cardinality(RemovedLines(DiffLines)) = 2
    /\ dStats = <<2, 5>>

\* the hunks parse lists under DiffPath, and the lines of the original text
HunksUnderTest ==
    IF FileIndex(dParsed, DiffPath) = 0 THEN <<>>
    ELSE dParsed[FileIndex(dParsed, DiffPath)].hunks

OrigLines == SplitLines(dOrig)

\* the ops of a hunk by their leading character; any other line is a Context
IsInsertOp(ln) == StartsWith(ln, "+")
IsDeleteOp(ln) == StartsWith(ln, "-")
IsSourceOp(ln) == ~IsInsertOp(ln)

CountOps(hunks, insert) ==
    LET n(h) == Len(SelectSeq(h.lines, LAMBDA ln : IF insert THEN IsInsertOp(ln)
                                                             ELSE IsDeleteOp(ln)))
    IN  IF hunks = <<>> THEN 0
        ELSE LET sum[j \in 0..Len(hunks)] == IF j = 0 THEN 0 ELSE sum[j - 1] + n(hunks[j])
             IN  sum[Len(hunks)]

\* where the source cursor stands when the ops of hunk j begin (CursorAt) and
\* after its last op (CursorAfter): a forward pass never moves the cursor back
RECURSIVE CursorAfter(_, _)
CursorAt(hunks, j) == Max(CursorAfter(hunks, j - 1), hunks[j].old_start)

CursorAfter(hunks, j) ==
    IF j = 0 THEN 1
    ELSE CursorAt(hunks, j) + Len(SelectSeq(hunks[j].lines, IsSourceOp))

\* the hunks are in increasing old_start order and no op reads past line n
OrderedWithin(hunks, n) ==
    /\ \A j \in 1..(Len(hunks) - 1) : hunks[j].old_start < hunks[j + 1].old_start
    /\ \A j \in 1..Len(hunks) : CursorAfter(hunks, j) <= n + 1

RECURSIVE Flatten(_)
Flatten(seqs) == IF seqs = <<>> THEN <<>> ELSE seqs[1] \o Flatten(Tail(seqs))

\* what the ops of hunk h put out when they begin at source line s
Emitted(src, h, s) ==
    Flatten([k \in 1..Len(h.lines) |->
                IF IsInsertOp(h.lines[k]) THEN <<StrSlice(h.lines[k], 2, Len(h.lines[k]))>>
                ELSE IF IsDeleteOp(h.lines[k]) THEN <<>>
                ELSE <<src[s + Len(SelectSeq(SubSeq(h.lines, 1, k - 1), IsSourceOp))]>>])

\* the output of the forward pass, piece by piece
Expected(src, hunks) ==
    Flatten([j \in 1..Len(hunks) |->
                SubSeq(src, CursorAfter(hunks, j - 1), CursorAt(hunks, j) - 1)
                \o Emitted(src, hunks[j], CursorAt(hunks, j))])
    \o SubSeq(src, CursorAfter(hunks, Len(hunks)), Len(src))

\* C22: for hunks in increasing old_start order whose ops stay within the
\* file, _apply_hunks_to_text puts out the original lines before each hunk,
\* then per op the original line at the cursor (Context), nothing (Delete) or
\* the op's text (Insert), then the remaining original lines; the output has
\* as many lines as the original, less the Delete ops, plus the Insert ops.
C22_ForwardSinglePass ==
    dpc \in {"applied", "counted"} =>
        \E src \in {OrigLines}, hunks \in {HunksUnderTest} :
            OrderedWithin(hunks, Len(src)) =>
                /\ dOut.ok
                /\ dOut.text = Join(Expected(src, hunks), "\n")
                /\ Len(SplitLines(dOut.text)) =
                       Len(src) - CountOps(hunks, FALSE) + CountOps(hunks, TRUE)

\* C22 witness: a hunk whose Context text "x" is not the original line "a" was
\* applied: the output keeps "a", drops "b" and adds "c".
C22_Witness ==
    /\ dpc = "applied" /\ dDiff = StaleContext.diff
    /\ OrderedWithin(HunksUnderTest, Len(OrigLines))
    /\ HunksUnderTest[1].lines = <<" x", "-b", "+c">>
    /\ dOut = [ok |-> TRUE, text |-> "a\nc"]

\* the last line of the body that begins at line k of the diff lines, for a
\* hunk that still has o original and n new lines to come: the body has the
\* lines its header counts, with the "\ No newline at end of file" markers
\* among them
RECURSIVE BodyLast(_, _, _, _)
BodyLast(lines, k, o, n) ==
    IF k > Len(lines) THEN k - 1
    ELSE IF StartsWith(lines[k], "\\") THEN BodyLast(lines, k + 1, o, n)
    ELSE IF StartsWith(lines[k], "-") /\ o > 0 THEN BodyLast(lines, k + 1, o - 1, n)
    ELSE IF StartsWith(lines[k], "+") /\ n > 0 THEN BodyLast(lines, k + 1, o, n - 1)
    ELSE IF StartsWith(lines[k], " ") /\ o > 0 /\ n > 0
        THEN BodyLast(lines, k + 1, o - 1, n - 1)
    ELSE k - 1

\* the hunks of the diff lines as the text gives them: for every hunk header
\* after a file marker, [at, path, hunk] with at the line of the header, path
\* the path of the nearest "+++ b/<path>" line before it that is no line of a
\* hunk body, and hunk the header's numbers with the lines of its body
HunksOfText(lines) ==
    LET heads == {[at |-> i, m |-> HunkHeader(lines[i])] : i \in 1..Len(lines)}
        hunks == {[at |-> h.at, m |-> h.m,
                   last |-> BodyLast(lines, h.at + 1, h.m.old_len, h.m.new_len)] :
                     h \in {x \in heads : x.m.ok}}
        markers == {k \in 1..Len(lines) :
                       /\ StartsWith(lines[k], "+++ b/")
                       /\ \A h \in hunks : ~(h.at < k /\ k <= h.last)}
        MarkerOf(i) == LET before == {k \in markers : k < i}
                       IN  IF before = {} THEN 0
                           ELSE CHOOSE k \in before : \A j \in before : j <= k
    IN  {[at |-> h.at,
          path |-> StrSlice(lines[MarkerOf(h.at)], 7, Len(lines[MarkerOf(h.at)])),
          hunk |-> [old_start |-> h.m.old_start, old_len |-> h.m.old_len,
                    new_start |-> h.m.new_start, new_len |-> h.m.new_len,
                    lines |-> SubSeq(lines, h.at + 1, h.last)]] :
            h \in {x \in hunks : MarkerOf(x.at) # 0}}

\* C27: every hunk of the diff is listed, whole, under the file named by the
\* nearest "+++ b/<path>" line before its header, in diff order, and the parse
\* lists no other hunk.
C27_HunkAttribution ==
    dpc # "in" =>
        \E owned \in {HunksOfText(DiffLines)} :
            /\ \A h \in owned :
                  LET f == FileIndex(dParsed, h.path)
                      rank == Cardinality({x \in owned : x.at <= h.at /\ x.path = h.path})
                  IN  /\ f # 0
                      /\ rank <= Len(dParsed[f].hunks)
                      /\ dParsed[f].hunks[rank] = h.hunk
            /\ \A f \in 1..Len(dParsed) :
                  Len(dParsed[f].hunks) =
                      Cardinality({x \in owned : x.path = dParsed[f].path})

(***************************************************************************)
(* Claims about a run of handle_issue_event (checked under Spec)           *)
(***************************************************************************)
\* the indices of the log at which op was called
CallsOf(op) == {i \in 1..Len(calls) : calls[i].op = op}

LastOf(S) == CHOOSE i \in S : \A j \in S : j <= i

\* the calls of the model made by run_two_rounds, and its fetches
RoundCalls == {i \in CallsOf("chat_completions") : calls[i].arg = "round"}
FetchCalls == CallsOf("fetch_callback")

\* the log from the entry into _apply_unified_diff on
DuringApply(i) == CallsOf("_apply_unified_diff") # {} /\ i > LastOf(CallsOf("_apply_unified_diff"))

Mutations == {"create_branch", "create_or_update_file", "create_pr"}

\* the handler's last act was to post a comment on the issue; the run ended
\* as out when the tracker took it
EndsReporting(out) ==
    pc = "done" =>
        /\ calls # <<>>
        /\ calls[Len(calls)].op = "add_issue_comment"
        /\ calls[Len(calls)].arg = "issue"
        /\ outcome = (IF calls[Len(calls)].ok THEN out ELSE "Raised")

\* C2: under a restrictive allow-list every path handed to
\* create_or_update_file, and to get_file_text while the patch is applied, is
\* itself a repo-relative path under an allowed prefix.
C2_SandboxOnWrites ==
    Restrictive(ALLOWED_PATHS) =>
        \A i \in 1..Len(calls) :
            (\/ calls[i].op = "create_or_update_file"
             \/ calls[i].op = "get_file_text" /\ DuringApply(i))
            => IsRepoPath(calls[i].arg) /\ RefIsAllowed(calls[i].arg, ALLOWED_PATHS)

\* a file of the parsed diff fails the allow-list check
NamesDisallowed(diff_text) ==
    LET parsed == ParseUnifiedDiff(diff_text)
    IN  \E i \in 1..Len(parsed) :
            ~PathAllowedWithIn(parsed[i].path, ALLOWED_PATHS, REPO_NAME, REPO_ROOT)

\* C3: once the patch of a diff that names a disallowed path is being applied,
\* no branch, file or pull request is ever created, and the run ends by
\* reporting PatchApplyFailed on the issue.
C3_ApplyAllOrNothing ==
    (CallsOf("_apply_unified_diff") # {} /\ NamesDisallowed(result.diff)) =>
        /\ \A i \in 1..Len(calls) : calls[i].op \notin Mutations
        /\ EndsReporting("PatchApplyFailed")

\* C3 witness: a run ended as PatchApplyFailed whose diff names an allowed file
\* first, which was read, and a disallowed file second.
C3_Witness ==
    /\ pc = "done" /\ outcome = "PatchApplyFailed"
    /\ LET parsed == ParseUnifiedDiff(result.diff)
       IN  /\ Len(parsed) = 2
           /\ PathAllowedWithIn(parsed[1].path, ALLOWED_PATHS, REPO_NAME, REPO_ROOT)
           /\ ~PathAllowedWithIn(parsed[2].path, ALLOWED_PATHS, REPO_NAME, REPO_ROOT)
    /\ \E i \in CallsOf("get_file_text") : DuringApply(i) /\ calls[i].ok

\* C4: a proposed patch over a budget is reported as BudgetExceeded with no
\* get_file_text, create_branch, create_or_update_file or create_pr after the
\* model's result; a patch within the budgets, the maxima included, is not
\* rejected: its application is entered.
C4_BudgetCheck ==
    result.action = "propose_patch" =>
        LET stats == DiffStats(result.diff)
            after == {i \in 1..Len(calls) : i > LastOf(RoundCalls)}
        IN  IF stats[1] > MAX_FILES \/ stats[2] > MAX_LINES
            THEN /\ \A i \in after : calls[i].op \notin (Mutations \cup {"get_file_text"})
                 /\ EndsReporting("BudgetExceeded")
            ELSE /\ outcome # "BudgetExceeded"
                 /\ pc = "done" => CallsOf("_apply_unified_diff") # {}

\* C4 witness: a run ended as BudgetExceeded for a diff of more files than
\* MAX_FILES whose changed lines are within MAX_LINES.
C4_Witness ==
    /\ pc = "done" /\ outcome = "BudgetExceeded"
    /\ result.action = "propose_patch"
    /\ DiffStats(result.diff)[1] = MAX_FILES + 1
    /\ DiffStats(result.diff)[2] <= MAX_LINES

\* the issue got a comment, or a pull request was opened
Feedback ==
    \E i \in 1..Len(calls) :
        /\ calls[i].ok
        /\ \/ calls[i].op = "add_issue_comment" /\ calls[i].arg = "issue"
           \/ calls[i].op = "create_pr"

\* C5: a run that passed the trigger check ends with feedback. Stated for the
\* runs in which every collaborator call returned, which the claim includes.
C5_FeedbackGuaranteed ==
    (pc = "done" /\ outcome # "NoAction" /\ \A i \in 1..Len(calls) : calls[i].ok)
        => Feedback

\* round 1 asks for context and a need of it survives sanitization
AsksWithNeeds(r) ==
    /\ r.kind = "object" /\ r.action = "request_context"
    /\ \E i \in 1..Len(r.needs) :
          \E j \in 1..Len(AgentAllowedPaths(ALLOWED_PATHS)) :
              /\ r.needs[i].path # ""
              /\ StartsWith(r.needs[i].path, AgentAllowedPaths(ALLOWED_PATHS)[j])

\* the result a round returns for reply r (C7 is about the replies for which it
\* returns none)
Reading(r) ==
    IF r.kind = "invalid" \/ (r.kind = "object" /\ r.action \in {"", "other"})
    THEN [action |-> "request_context", needs |-> <<>>]
    ELSE [action |-> r.action, needs |-> r.needs]

\* C6: run_two_rounds calls the model at most twice and fetches at most once;
\* it fetches and calls the model again exactly when round 1 asked for context
\* with a surviving need; what it returns is the result of its last round,
\* a second request for context included.
C6_TwoRoundBound ==
    /\ Cardinality(RoundCalls) <= 2
    /\ Cardinality(FetchCalls) <= 1
    /\ Cardinality(RoundCalls) = 2 => Cardinality(FetchCalls) = 1
    /\ pc \in {"fetch", "round2"} =>
          /\ Cardinality(RoundCalls) = 1
          /\ Cardinality(FetchCalls) = (IF pc = "fetch" THEN 0 ELSE 1)
          /\ AsksWithNeeds(reply)
    /\ pc = "result" =>
          /\ Cardinality(RoundCalls) = 1 => (FetchCalls = {} /\ ~AsksWithNeeds(reply))
          /\ result.action = Reading(reply).action
          /\ result.action = "propose_patch" => result.diff = reply.diff
          /\ result.needs = Reading(reply).needs

\* C6 witness: run_two_rounds has returned a second request for context after
\* two model calls and one fetch.
C6_Witness ==
    /\ pc = "result"
    /\ Cardinality(RoundCalls) = 2
    /\ Cardinality(FetchCalls) = 1
    /\ result.action = "request_context"
    /\ result.needs # <<>>

\* a reply that is no JSON, or whose action is neither of the two known ones
Malformed(r) ==
    \/ r.kind \in {"invalid", "array", "string", "number"}
    \/ r.kind = "object" /\ r.action \notin {"request_context", "propose_patch"}

\* C7: the round that reads a malformed reply returns a request for context
\* with no needs and a reason, and does not raise.
C7_MalformedAbsorbed ==
    Malformed(reply) =>
        /\ result.action = "request_context"
        /\ result.needs = <<>>
        /\ result.reason # ""
        /\ ~(outcome = "Raised" /\ calls[Len(calls)].op = "chat_completions"
                                /\ calls[Len(calls)].ok)

\* the events the trigger condition names: an opened or reopened issue, the
\* addition of a trigger label, or an issue that carries a trigger label
MayProceed(ev) ==
    \/ ev.action \in {"opened", "reopened"}
    \/ ev.action = "labeled" /\ ev.label \in TRIGGER_LABELS
    \/ ev.labels \cap TRIGGER_LABELS # {}

\* C14: a run gets past the trigger check, or makes any call, only for an
\* event the trigger condition names; every other event ends as NoAction with
\* no call made.
C14_TriggerCondition ==
    /\ (pc \notin {"comment", "event", "done"} \/ calls # <<>>) => MayProceed(event)
    /\ (pc = "done" /\ ~MayProceed(event)) => (outcome = "NoAction" /\ calls = <<>>)

\* the run was delivered to handle_issue_comment_event
FromComment(ev) == ev.action = "created" \/ ev.comment # <<>>

\* C15: a created comment that begins with "/agent fix" runs the pipeline on
\* its issue, whatever the labels of the issue: the run gets to the gathering
\* of context and ends with feedback; any other comment event makes no call.
C15_CommentReentry ==
    FromComment(event) =>
        IF event.action = "created" /\ IsCommand(event.comment)
        THEN pc = "done" => (CallsOf("get_default_branch") # {} /\ Feedback)
        ELSE calls = <<>> /\ (pc = "done" => outcome = "NoAction")

\* detection has settled the candidate files itself (the model was not asked)
Detected ==
    /\ pc \notin {"comment", "event", "base", "crossrepo", "detect"}
    /\ \A i \in CallsOf("chat_completions") : calls[i].arg # "files_needed"
    /\ requested_files # <<>>

\* the files of the traceback lines of the body alone
TracebackFiles(b, allowed) ==
    AddTracebackFiles(QuotedMatches(b) \o BareMatches(b), <<>>, allowed)

\* C16: the candidates of detection come from the first non-empty tier only
\* (with a Target line in the body, none comes from a traceback line alone;
\* with neither Target nor traceback line, each is a conventional file that
\* exists), and the list has no duplicate and at most 5 entries.
C16_FirstTierOnly ==
    Detected =>
        /\ \A i, j \in 1..Len(requested_files) :
              requested_files[i] = requested_files[j] => i = j
        /\ Len(requested_files) <= 5
        /\ TargetFiles(body) # <<>> =>
              \A i \in 1..Len(requested_files) :
                  InSeq(requested_files[i], TracebackFiles(body, ALLOWED_PATHS))
                  => InSeq(requested_files[i], TargetFiles(body))
        /\ (TargetFiles(body) = <<>> /\ TracebackFiles(body, ALLOWED_PATHS) = <<>>) =>
              \A i \in 1..Len(requested_files) : FileExists(requested_files[i])


\* a read of the repository: file_exists or get_file_text
IsRead(c) == c.op \in {"file_exists", "get_file_text"}

\* C19: no file_exists or get_file_text call of a run is issued for a path
\* that _path_allowed rejects.
C19_NoReadOutsideSandbox ==
    \A i \in 1..Len(calls) :
        IsRead(calls[i]) => PathAllowed(calls[i].arg, ALLOWED_PATHS)

\* the original lines a hunk's ops consume: its context and deletion lines
Consumed(h) ==
    Len(SelectSeq(h.lines, LAMBDA ln : StartsWith(ln, " ") \/ StartsWith(ln, "-")))

\* a hunk of the diff consumes a number of original lines other than its old_len
Inconsistent(diff_text) ==
    LET parsed == ParseUnifiedDiff(diff_text)
    IN  \E i \in 1..Len(parsed) :
            \E j \in 1..Len(parsed[i].hunks) :
                Consumed(parsed[i].hunks[j]) # parsed[i].hunks[j].old_len

\* C20: once a diff with a hunk whose ops consume a number of original lines
\* other than its declared old_len is being applied, no branch, file or pull
\* request is created and the run ends by reporting PatchApplyFailed.
C20_OldLenConsistency ==
    (CallsOf("_apply_unified_diff") # {} /\ Inconsistent(result.diff)) =>
        /\ updated_files = <<>>
        /\ \A i \in 1..Len(calls) : calls[i].op \notin Mutations
        /\ EndsReporting("PatchApplyFailed")

\* the calls that change the repository, and the first of them
MutationCalls == {i \in 1..Len(calls) : calls[i].op \in Mutations}

FirstOf(S) == CHOOSE i \in S : \A j \in S : i <= j

\* before call i the whole diff of the result was applied in memory: the
\* application was entered and every file the diff parses to was read
AppliedBefore(i) ==
    \E a \in CallsOf("_apply_unified_diff") :
        /\ a < i
        /\ LET parsed == ParseUnifiedDiff(result.diff)
           IN  \A k \in 1..Len(parsed) :
                   \E r \in CallsOf("get_file_text") :
                       a < r /\ r < i /\ calls[r].ok /\ calls[r].arg = parsed[k].path

\* C23: create_branch, create_or_update_file and create_pr are called only
\* after the final result is a proposed patch within the budgets whose whole
\* diff was applied in memory; create_branch comes before every
\* create_or_update_file, all of which come before the one create_pr, a draft;
\* a run whose final result is a request for context makes none of these calls.
C23_MutationOrdering ==
    /\ MutationCalls # {} =>
          /\ result.action = "propose_patch"
          /\ LET stats == DiffStats(result.diff) IN ~OverBudget(stats[1], stats[2])
          /\ AppliedBefore(FirstOf(MutationCalls))
          /\ calls[FirstOf(MutationCalls)].op = "create_branch"
    /\ Cardinality(CallsOf("create_branch")) <= 1
    /\ Cardinality(CallsOf("create_pr")) <= 1
    /\ \A p \in CallsOf("create_pr") :
          /\ calls[p].arg = "draft"
          /\ \A w \in CallsOf("create_or_update_file") : w < p /\ calls[w].ok
          /\ p = LastOf(MutationCalls)
    /\ (pc = "done" /\ result.action = "request_context") => MutationCalls = {}

\* C23 witness: a run opened its pull request after create_branch and the
\* writes of two files.
C23_Witness ==
    /\ pc = "done" /\ outcome = "PullRequestOpened"
    /\ Cardinality(CallsOf("create_or_update_file")) = 2
    /\ \E b \in CallsOf("create_branch"), p \in CallsOf("create_pr") :
          /\ calls[p].ok /\ calls[p].arg = "draft"
          /\ \A w \in CallsOf("create_or_update_file") : b < w /\ w < p

\* every hunk of a parsed diff, file after file
AllHunks(parsed) == Flatten([k \in 1..Len(parsed) |-> parsed[k].hunks])

\* C25: in every run that writes files, at most MAX_FILES distinct files are
\* written and the hunks that were applied hold at most MAX_LINES Insert and
\* Delete ops.
C25_BudgetBoundsApplied ==
    CallsOf("create_or_update_file") # {} =>
        /\ Cardinality({calls[i].arg : i \in CallsOf("create_or_update_file")}) <= MAX_FILES
        /\ LET hunks == AllHunks(ParseUnifiedDiff(result.diff))
           IN  CountOps(hunks, TRUE) + CountOps(hunks, FALSE) <= MAX_LINES

\* C26: create_pr is called only in runs that wrote a file, and a proposed
\* patch whose diff parses to no files opens no branch and no pull request.
C26_PullRequestCarriesChange ==
    /\ CallsOf("create_pr") # {} => CallsOf("create_or_update_file") # {}
    /\ (result.action = "propose_patch" /\ ParseUnifiedDiff(result.diff) = <<>>) =>
          (CallsOf("create_branch") = {} /\ CallsOf("create_pr") = {})

=============================================================================
